---- MODULE Spec2Model ----
(***************************************************************************)
(* Identifier resolution layer of favro-mcp (src/favro_mcp/resolvers) on   *)
(* top of the synchronous API client (src/favro_mcp/api/client.py), the    *)
(* request loop of the asynchronous client (src/favro_mcp/client.py) and   *)
(* the session context (src/favro_mcp/context.py), the async server        *)
(* (src/favro_mcp/server.py) and the list_boards tool (tools/boards.py).   *)
(*                                                                         *)
(* Spec        one resolve() call of one resolver                          *)
(* SpecCalls   two resolve() calls, repeated or interleaved                *)
(* SpecRequest one HTTP call of either client                              *)
(* SpecContext require_org and set_organization on the session context     *)
(* SpecRequestLive  SpecRequest with the event loop's fairness              *)
(* SpecHeaders the calls of one client and the backend identifier it sends  *)
(* SpecPages   one paginated fetch of either client                         *)
(* SpecParse   one call of CardResolver._parse_sequential_id                *)
(* SpecServer  set_organization and list_widgets of the async server        *)
(* SpecBoards  one call of the list_boards tool                             *)
(*                                                                         *)
(* Python strings are modelled as sequences of one-character strings, so   *)
(* that str.lower(), str.strip() and the sequential-id regular expression  *)
(* are computed character by character.                                    *)
(***************************************************************************)
EXTENDS Integers, Sequences, FiniteSets, TLC

(***************************************************************************)
(* Bounds                                                                  *)
(***************************************************************************)
\* Largest number of entities the service holds for the kind being resolved
MaxEntities == 2

\* Largest retry_count handed to the asynchronous client's _request
MaxRetryCount == 3

\* most pages a paginated listing is split into
MaxPages == 3

\* longest identifier handed to _parse_sequential_id
MaxLen == 4

(***************************************************************************)
(* Python string primitives                                                *)
(***************************************************************************)
UpperChars == <<"A", "B", "C", "D", "E", "F", "G", "H", "I", "J", "K", "L", "M",
                "N", "O", "P", "Q", "R", "S", "T", "U", "V", "W", "X", "Y", "Z">>

LowerChars == <<"a", "b", "c", "d", "e", "f", "g", "h", "i", "j", "k", "l", "m",
                "n", "o", "p", "q", "r", "s", "t", "u", "v", "w", "x", "y", "z">>

Digits == <<"0", "1", "2", "3", "4", "5", "6", "7", "8", "9">>

IsUpper(c) == \E i \in 1..Len(UpperChars) : UpperChars[i] = c

IsAlpha(c) == IsUpper(c) \/ \E i \in 1..Len(LowerChars) : LowerChars[i] = c

IsDigit(c) == \E i \in 1..Len(Digits) : Digits[i] = c

IsSpace(c) == c = " "

DigitValue(c) == (CHOOSE i \in 1..Len(Digits) : Digits[i] = c) - 1

\* a lower() that leaves every character as it is
sameChar(c) == c

\* str.lower() on one character
lowerChar(c) ==
    IF IsUpper(c)
    THEN LowerChars[CHOOSE i \in 1..Len(UpperChars) : UpperChars[i] = c]
    ELSE c

\* str.lower()
lower(s) == [i \in 1..Len(s) |-> lowerChar(s[i])]

RECURSIVE lstrip(_)
lstrip(s) ==
    IF s # <<>> /\ IsSpace(Head(s)) THEN lstrip(Tail(s)) ELSE s

RECURSIVE rstrip(_)
rstrip(s) ==
    IF s # <<>> /\ IsSpace(s[Len(s)])
    THEN rstrip(SubSeq(s, 1, Len(s) - 1))
    ELSE s

\* str.strip()
strip(s) == rstrip(lstrip(s))

\* int() of a string of decimal digits
RECURSIVE int(_)
int(s) ==
    IF s = <<>> THEN 0
    ELSE 10 * int(SubSeq(s, 1, Len(s) - 1)) + DigitValue(s[Len(s)])

\* the regular expression \d+ anchored at both ends
AllDigits(s) == Len(s) >= 1 /\ \A i \in 1..Len(s) : IsDigit(s[i])

\* Python None for an optional int
NoSeq == -1

\* Python None for an optional board id
NoBoard == "None"


(***************************************************************************)
(* Data held by the Favro service (the environment of the resolvers)       *)
(***************************************************************************)
EntityTypes == {"organization", "board", "tag", "column", "user", "card"}

\* resolvers that inherit BaseResolver.resolve
GenericTypes == {"organization", "board", "tag", "column", "user"}

\* resolvers whose _fetch_all takes a board_id context
ScopedTypes == {"column", "card"}

Boards == {"b1", "b2"}

IdPool == {<<"a">>, <<"4", "2">>, <<"k">>}

NamePool(et) ==
    IF et = "card"
    THEN {<<"a">>, <<"A">>, <<"4", "2">>}
    ELSE {<<"a">>, <<"A">>, <<"a", "b">>}

BoardPool(et) == IF et \in ScopedTypes THEN Boards ELSE {NoBoard}

SeqPool(et) == IF et = "card" THEN {7, 42} ELSE {0}

EmailPool(et) == IF et = "user" THEN {<<"a">>, <<"e">>, <<"E">>} ELSE {<<>>}

\* the fields of Organization, Widget, Tag, Column, User and Card that the
\* resolvers read
EntityPool(et) ==
    [id : IdPool, name : NamePool(et), board : BoardPool(et),
     seq : SeqPool(et), email : EmailPool(et)]

\* Python None for an optional entity
NoEntity == [id |-> <<>>, name |-> <<>>, board |-> NoBoard, seq |-> 0, email |-> <<>>]

DistinctIds(s) == \A i, j \in 1..Len(s) : i # j => s[i].id # s[j].id

\* the collections the service may hold, in the order it lists them
Stores(et) ==
    {s \in UNION {[1..n -> EntityPool(et)] : n \in 0..MaxEntities} : DistinctIds(s)}

\* identifiers handed to resolve()
IdentifierPool(et) ==
    IF et = "card"
    THEN {<<"a">>, <<"A">>, <<"k">>, <<"4", "2">>, <<"#", "4", "2">>,
          <<"A", "B", "C", "-", "4", "2">>, <<" ", "4", "2", " ">>, <<"#", "a">>}
    ELSE IF et = "user"
    THEN {<<"a">>, <<"A">>, <<"a", "b">>, <<"k">>, <<"e">>}
    ELSE {<<"a">>, <<"A">>, <<"a", "b">>, <<"k">>, <<"4", "2">>}

\* board_id keyword handed to resolve()
ScopePool(et) == IF et \in ScopedTypes THEN {NoBoard, "b1"} ELSE {NoBoard}

\* what the service can answer to one HTTP request; status 0 stands for a
\* transport failure (httpx.RequestError, no response at all)
Responses ==
    {[status |-> 200, body |-> "data"], [status |-> 200, body |-> "message"],
     [status |-> 401, body |-> "error"], [status |-> 403, body |-> "error"],
     [status |-> 404, body |-> "error"], [status |-> 429, body |-> "error"],
     [status |-> 500, body |-> "error"], [status |-> 0, body |-> "none"]}

HasId(s, id) == \E i \in 1..Len(s) : s[i].id = id

EntityById(s, id) == s[CHOOSE i \in 1..Len(s) : s[i].id = id]

\* answers to GET /<kind>/<id>: the entity is sent only if it exists
ByIdResponses(s, id) ==
    {r \in Responses : (r.status = 200 /\ r.body = "data") => HasId(s, id)}

HasParam(params, key) == \E p \in params : p[1] = key

ParamValue(params, key) == (CHOOSE p \in params : p[1] = key)[2]

\* answer to GET /<kind>: the collection, narrowed by widgetCommonId if sent
ServiceList(s, params) ==
    IF HasParam(params, "widgetCommonId")
    THEN SelectSeq(s, LAMBDA e : e.board = ParamValue(params, "widgetCommonId"))
    ELSE s


(***************************************************************************)
(* api/client.py: the synchronous FavroClient                              *)
(***************************************************************************)
\* FavroClient._handle_response: the exception raised for a response, or "ok"
handle_response(response) ==
    IF response.status = 401 THEN "FavroAuthError"
    ELSE IF response.status = 403 THEN "FavroAuthError"
    ELSE IF response.status = 404 THEN "FavroNotFoundError"
    ELSE IF response.status = 429 THEN "FavroRateLimitError"
    ELSE IF response.status >= 400 THEN "FavroAPIError"
    ELSE IF response.body = "message" THEN "FavroAPIError"
    ELSE "ok"

\* FavroClient._get: httpx raises before a response exists, or the response
\* is handled
get(response) ==
    IF response.status = 0 THEN "RequestError" ELSE handle_response(response)

\* path of the REST resource of each resolver's entity kind
Path(et) ==
    CASE et = "organization" -> "/organizations"
      [] et = "board" -> "/widgets"
      [] et = "tag" -> "/tags"
      [] et = "column" -> "/columns"
      [] et = "user" -> "/users"
      [] et = "card" -> "/cards"

\* a request for one entity that deletes it
ByIdRequestDelete(et, id) ==
    [method |-> "DELETE", path |-> Path(et), id |-> id, params |-> {}]

\* a request as the service sees it: GET <path>/<id> or GET <path>?<params>
ByIdRequest(et, id) ==
    [method |-> "GET", path |-> Path(et), id |-> id, params |-> {}]

CollectionRequest(et, params) ==
    [method |-> "GET", path |-> Path(et), id |-> <<>>, params |-> params]

\* what a client call hands back: the exception it raised (or "none"), the
\* requests it sent, and its return value
Raised(exc, sent) == [exc |-> exc, sent |-> sent, value |-> <<>>]

Returned(value, sent) == [exc |-> "none", sent |-> sent, value |-> value]

\* FavroClient.get_user/get_organization/get_widget/get_column/get_card/get_tag
get_entity(et, id, response, s) ==
    IF get(response) # "ok"
    THEN Raised(get(response), <<ByIdRequest(et, id)>>)
    ELSE Returned(EntityById(s, id), <<ByIdRequest(et, id)>>)

\* query parameters built by get_users, get_organizations, get_widgets,
\* get_columns and get_tags
CollectionParams(et, board_id) ==
    CASE et = "board" -> {<<"archived", "false">>}
      [] et = "column" -> {<<"widgetCommonId", board_id>>}
      [] OTHER -> {}

\* _paginate_all behind get_users/get_organizations/get_widgets/get_columns/
\* get_tags: the listing, or the exception of the request that failed
get_collection(et, board_id, response, s) ==
    LET request == CollectionRequest(et, CollectionParams(et, board_id))
    IN IF get(response) # "ok"
       THEN Raised(get(response), <<request>>)
       ELSE Returned(ServiceList(s, request.params), <<request>>)

\* keyword parameters in the signature of FavroClient.get_cards
get_cards_signature ==
    {"widget_common_id", "collection_id", "column_id", "todo_list", "unique"}

\* truth value of an optional string
Truthy(x) == x # NoBoard /\ x # ""

\* FavroClient.get_cards called with the keyword arguments kwargs: a keyword
\* outside the signature makes the call raise TypeError before any request
get_cards(kwargs, response, s) ==
    LET params ==
            {<<"unique", "true">>} \cup
            (IF "widget_common_id" \in DOMAIN kwargs /\ Truthy(kwargs.widget_common_id)
             THEN {<<"widgetCommonId", kwargs.widget_common_id>>}
             ELSE {})
        request == CollectionRequest("card", params)
    IN IF ~(DOMAIN kwargs \subseteq get_cards_signature)
       THEN Raised("TypeError", <<>>)
       ELSE IF get(response) # "ok"
       THEN Raised(get(response), <<request>>)
       ELSE Returned(ServiceList(s, params), <<request>>)


(***************************************************************************)
(* resolvers/base.py, board.py, organization.py, tag.py, column.py,        *)
(* user.py, card.py                                                        *)
(***************************************************************************)
\* outcome of a resolve() call: nothing yet, a returned entity, or a raised
\* exception with the attributes NotFoundError and AmbiguousMatchError carry
NoResult ==
    [status |-> "none", entity |-> NoEntity, exc |-> "none",
     entity_type |-> "", identifier |-> <<>>, matches |-> <<>>]

Return(entity) ==
    [status |-> "return", entity |-> entity, exc |-> "none",
     entity_type |-> "", identifier |-> <<>>, matches |-> <<>>]

Raise(exc) ==
    [status |-> "raise", entity |-> NoEntity, exc |-> exc,
     entity_type |-> "", identifier |-> <<>>, matches |-> <<>>]

\* a NotFoundError that reports the lower-cased identifier
NotFoundErrorLowered(et, id) ==
    [status |-> "raise", entity |-> NoEntity, exc |-> "NotFoundError",
     entity_type |-> et, identifier |-> lower(id), matches |-> <<>>]

\* NotFoundError(entity_type, identifier)
NotFoundError(et, id) ==
    [status |-> "raise", entity |-> NoEntity, exc |-> "NotFoundError",
     entity_type |-> et, identifier |-> id, matches |-> <<>>]

\* AmbiguousMatchError(entity_type, name, matches)
AmbiguousMatchError(et, name, matches) ==
    [status |-> "raise", entity |-> NoEntity, exc |-> "AmbiguousMatchError",
     entity_type |-> et, identifier |-> name, matches |-> matches]

\* <Kind>Resolver._fetch_by_id: the client's not-found error becomes None
fetch_by_id(et, id, response, s) ==
    LET r == get_entity(et, id, response, s)
    IN IF r.exc = "FavroNotFoundError" THEN Returned(NoEntity, r.sent) ELSE r
\* a _fetch_all without ColumnResolver's board_id check
fetch_all_unguarded(et, board, response, s) ==
    IF et = "card"
    THEN get_cards([widget_common_id |-> board], response, s)
    ELSE get_collection(et, board, response, s)

\* <Kind>Resolver._fetch_all
fetch_all(et, board, response, s) ==
    IF et = "column" /\ board = NoBoard
    THEN Raised("ValueError", <<>>)
    ELSE IF et = "card"
    THEN get_cards([widget_common_id |-> board], response, s)
    ELSE get_collection(et, board, response, s)

\* exception classes that reach the resolvers; every one derives from
\* Python's Exception
ExceptionClasses ==
    {"FavroAPIError", "FavroAuthError", "FavroNotFoundError", "FavroRateLimitError",
     "RequestError", "TypeError", "ValueError"}
\* a handler that catches the client's API errors only
ExceptFavroAPIError(exc) ==
    exc \in {"FavroAPIError", "FavroAuthError", "FavroNotFoundError", "FavroRateLimitError"}

\* the handler "except Exception" around the fast path
ExceptException(exc) == exc \in ExceptionClasses
\* a resolve() that never takes the fast path's return
FastPathNever(r) == FALSE

\* the fast path of resolve() ends the call: an entity came back
FastPathHit(r) == r.exc = "none" /\ r.value # NoEntity
\* a handler that catches every exception of the base resolution
ExceptAnyError(out) == out.status = "raise"

\* the handler "except NotFoundError" of UserResolver.resolve
ExceptNotFoundError(out) == out.status = "raise" /\ out.exc = "NotFoundError"
\* a scope check that never fires
BoardIsNoneNever(board) == FALSE

\* "if board_id is None" of CardResolver.resolve
BoardIsNone(board) == board = NoBoard
\* a name filter that accepts names containing the identifier as a prefix
NameMatchesPrefix(entities, id) ==
    SelectSeq(entities, LAMBDA e :
        Len(e.name) >= Len(id) /\ lower(SubSeq(e.name, 1, Len(id))) = lower(id))

\* the name filter of resolve()
NameMatches(entities, id) ==
    SelectSeq(entities, LAMBDA e : lower(e.name) = lower(id))

\* an email filter that compares the case of letters too
EmailMatchesCaseSensitive(users, id) ==
    SelectSeq(users, LAMBDA u : u.email = id)

\* the email filter of UserResolver.resolve()
EmailMatches(users, id) ==
    SelectSeq(users, LAMBDA u : lower(u.email) = lower(id))

\* match_info of BaseResolver.resolve and of the name search of CardResolver
NameMatchInfo(matches) ==
    [i \in 1..Len(matches) |-> <<matches[i].id, matches[i].name>>]
\* a rule that settles several matches by taking the first
MatchOutcomeFirst(et, id, matches) ==
    IF Len(matches) = 0 THEN NotFoundError(et, id) ELSE Return(matches[1])

\* the zero / one / many rule that ends BaseResolver.resolve
MatchOutcome(et, id, matches) ==
    IF Len(matches) = 0 THEN NotFoundError(et, id)
    ELSE IF Len(matches) = 1 THEN Return(matches[1])
    ELSE AmbiguousMatchError(et, id, NameMatchInfo(matches))

\* str() of a non-negative int
RECURSIVE str(_)
str(n) ==
    IF n < 10 THEN <<Digits[n + 1]>> ELSE str(n \div 10) \o <<Digits[(n % 10) + 1]>>

\* match_info of the sequential path: (card id, "#<seq>: <name>")
SequentialMatchInfo(cards) ==
    [i \in 1..Len(cards) |->
        <<cards[i].id, <<"#">> \o str(cards[i].seq) \o <<":", " ">> \o cards[i].name>>]

\* the zero / one / many rule of the sequential path
SequentialOutcome(et, id, cards) ==
    IF Len(cards) = 0 THEN NotFoundError(et, id)
    ELSE IF Len(cards) = 1 THEN Return(cards[1])
    ELSE AmbiguousMatchError(et, id, SequentialMatchInfo(cards))

\* match_info of the email path: (user id, "<name> (<email>)")
EmailMatchInfo(users) ==
    [i \in 1..Len(users) |->
        <<users[i].id, users[i].name \o <<" ", "(">> \o users[i].email \o <<")">>>>]

\* the end of UserResolver.resolve
EmailOutcome(et, id, email_matches) ==
    IF Len(email_matches) = 1 THEN Return(email_matches[1])
    ELSE IF Len(email_matches) > 1
    THEN AmbiguousMatchError(et, id, EmailMatchInfo(email_matches))
    ELSE NotFoundError(et, id)

\* a parser that takes the digits at the end of the stripped identifier,
\* whatever precedes them
parse_trailing_digits(id) ==
    LET s == strip(id)
        DigitsFrom(k) == AllDigits(SubSeq(s, k, Len(s)))
    IN IF \E k \in 1..Len(s) : DigitsFrom(k)
       THEN int(SubSeq(s, CHOOSE k \in 1..Len(s) :
                              DigitsFrom(k) /\ \A j \in 1..(k - 1) : ~DigitsFrom(j),
                       Len(s)))
       ELSE NoSeq

\* CardResolver._parse_sequential_id: re.match(r"^(?:#|[a-zA-Z]+-)?(\d+)$")
\* on the stripped identifier, then int() of the digits
parse_sequential_id(id) ==
    LET s == strip(id)
        PrefixAt(k) ==
            /\ s[k] = "-"
            /\ \A i \in 1..(k - 1) : IsAlpha(s[i])
            /\ AllDigits(SubSeq(s, k + 1, Len(s)))
    IN IF AllDigits(s) THEN int(s)
       ELSE IF Len(s) >= 2 /\ s[1] = "#" /\ AllDigits(Tail(s)) THEN int(Tail(s))
       ELSE IF \E k \in 2..(Len(s) - 1) : PrefixAt(k)
       THEN int(SubSeq(s, (CHOOSE k \in 2..(Len(s) - 1) : PrefixAt(k)) + 1, Len(s)))
       ELSE NoSeq

(***************************************************************************)
(* client.py: the asynchronous FavroClient, and one HTTP call of either     *)
(* client against a service whose answers are fixed in advance              *)
(***************************************************************************)
\* default of the retry_count parameter of _request
DefaultRetryCount == 3

\* what the service can answer to one request of an HTTP call: the answers of
\* Responses and 204 No Content
Answers == Responses \cup {[status |-> 204, body |-> "none"]}

\* the service's answers to the first, second, ... request of a call
Scripts == [1..(MaxRetryCount + 1) -> Answers]

\* the answers and backend identifiers looked at when the headers of a
\* client's requests are followed: success, rate limit, transport failure
HeaderAnswers == {a \in Answers : a.status \in {0, 429} \/ a = [status |-> 200, body |-> "data"]}

HeaderScripts == [1..(MaxRetryCount + 1) -> HeaderAnswers]

\* X-Favro-Backend-Identifier on the answers: absent or one of two values
BackendHeaders == {"None", "x", "y"}

\* "if self._backend_id:" of _get_headers: the header that goes into the
\* request for a client whose backend identifier is b
get_headers(b) == b

\* the backend identifier a client keeps after an answer that carried the
\* header received (or none): lines 153-154 of _request, 97-99 of
\* _handle_response
track_backend(b, received) == IF received # "None" THEN received ELSE b

\* how an HTTP call stands: still running, returned, or raised exc
Pending == [status |-> "pending", exc |-> "none", message |-> ""]

Returns == [status |-> "return", exc |-> "none", message |-> ""]

Raises(exc, message) == [status |-> "raise", exc |-> exc, message |-> message]

\* synchronous FavroClient._get as seen by its caller
sync_get(answer) ==
    IF get(answer) = "ok" THEN Returns ELSE Raises(get(answer), "")

\* a test that lets the last pass of the loop go round again too
MayRetryOnLastAttempt(n, k) == k < n

\* "if attempt < retry_count - 1" of _request: the loop goes round again
MayRetry(n, k) == k < n - 1

\* one pass through the body of "for attempt in range(retry_count)" of
\* _request with retry_count n and attempt k, the request being answered by
\* answer: how the call stands afterwards
request_attempt(n, k, answer) ==
    IF answer.status = 0
    THEN IF MayRetry(n, k) THEN Pending ELSE Raises("FavroAPIError", "Request failed")
    ELSE IF answer.status = 429
    THEN IF MayRetry(n, k) THEN Pending ELSE Raises("RateLimitError", "Rate limit exceeded")
    ELSE IF answer.status >= 400 THEN Raises("FavroAPIError", "status")
    ELSE IF answer.status = 204 THEN Returns
    ELSE IF answer.body = "message" THEN Raises("FavroAPIError", "message")
    ELSE Returns

(***************************************************************************)
(* context.py: FavroContext                                                *)
(***************************************************************************)
\* current_org_id of a context in which no organization is selected
NoOrg == <<>>

\* how a call on the context ended: fn is the method or tool, before the
\* current_org_id it found, sent the requests it made
CtxReturn(fn, before, value, sent) ==
    [fn |-> fn, status |-> "return", before |-> before, value |-> value,
     exc |-> "none", message |-> "", sent |-> sent]

CtxRaise(fn, before, exc, message, sent) ==
    [fn |-> fn, status |-> "raise", before |-> before, value |-> NoOrg,
     exc |-> exc, message |-> message, sent |-> sent]

\* the call is still running
CtxRunning(fn, before) ==
    [fn |-> fn, status |-> "running", before |-> before, value |-> NoOrg,
     exc |-> "none", message |-> "", sent |-> <<>>]

\* no call was made on the context yet
NoCtxCall ==
    [fn |-> "none", status |-> "none", before |-> NoOrg, value |-> NoOrg,
     exc |-> "none", message |-> "", sent |-> <<>>]

\* an auto-selection that takes the first organization of several
AtLeastOne(orgs) == Len(orgs) >= 1

\* "if len(orgs) == 1" of require_org
ExactlyOne(orgs) == Len(orgs) = 1

\* FavroContext.require_org on a context whose current_org_id is org, with
\* the credentials configured or not, the listing request being answered by
\* response: the current_org_id afterwards and how the call ended
require_org(org, creds, response, s) ==
    LET r == get_collection("organization", NoBoard, response, s)
    IN IF org # NoOrg
       THEN [org |-> org, call |-> CtxReturn("require_org", org, org, <<>>)]
       ELSE IF ~creds
       THEN [org |-> org,
             call |-> CtxRaise("require_org", org, "ValueError", "credentials", <<>>)]
       ELSE IF r.exc # "none"
       THEN [org |-> org, call |-> CtxRaise("require_org", org, r.exc, "", r.sent)]
       ELSE IF Len(r.value) = 0
       THEN [org |-> org,
             call |-> CtxRaise("require_org", org, "ValueError",
                               "No organizations found", r.sent)]
       ELSE IF ExactlyOne(r.value)
       THEN [org |-> r.value[1].id,
             call |-> CtxReturn("require_org", org, r.value[1].id, r.sent)]
       ELSE [org |-> org,
             call |-> CtxRaise("require_org", org, "ValueError",
                               "Multiple organizations available", r.sent)]

(***************************************************************************)
(* server.py: the async server's tools and resources on the global client   *)
(***************************************************************************)
\* the lists of organizations an account can access; the server's tools
\* tell them apart by id only
AccessibleOrganizations ==
    {s \in Stores("organization") : \A i \in 1..Len(s) : s[i].name = <<"a">>}

\* a set_organization that puts back the organization selected before
RestoreOnFailure(before) == before

\* "client.organization_id = None" of set_organization (lines 368, 371)
ResetOnFailure(before) == NoOrg

\* "if not client.organization_id" of the tools and resources: the check
\* passes
OrganizationSet(org) == org # NoOrg

\* what an awaited _request with the default retry_count can end in: the
\* outcome of the last attempt it makes
request_outcome(answer) ==
    request_attempt(DefaultRetryCount, DefaultRetryCount - 1, answer)

\* the organizations in the body of an answer that _request returned
OrganizationsIn(answer, s) == IF answer.status = 204 THEN <<>> ELSE s

(***************************************************************************)
(* tools/boards.py: list_boards                                             *)
(***************************************************************************)
\* Python None for the optional argument and for the local collection_id;
\* like the empty string it is false in a condition
NoCollection == <<>>

\* the fields of Collection that list_boards reads
CollectionPool == [id : IdPool, name : NamePool("board")]

\* the listings of collections the service may give
CollectionListings ==
    {s \in UNION {[1..n -> CollectionPool] : n \in 0..MaxEntities} : DistinctIds(s)}

\* the values of the argument "collection"
CollectionArguments == {NoCollection, <<"a">>, <<"A">>, <<"k">>, <<"a", "b">>}

\* the condition of line 38
CollectionMatches(col, arg) == col.id = arg \/ lower(col.name) = lower(arg)

\* the loop of lines 37-40: the id of the first collection of the listing
\* that matches, or None
find_collection(cols, arg) ==
    IF \E i \in 1..Len(cols) : CollectionMatches(cols[i], arg)
    THEN cols[CHOOSE i \in 1..Len(cols) :
                 /\ CollectionMatches(cols[i], arg)
                 /\ \A j \in 1..(i - 1) : ~CollectionMatches(cols[j], arg)].id
    ELSE NoCollection

\* FavroClient.get_collections and FavroClient.get_widgets of api/client.py:
\* the requests they send
CollectionsRequest ==
    [method |-> "GET", path |-> "/collections", id |-> <<>>,
     params |-> {<<"archived", "false">>}]

WidgetsRequest(cid) ==
    [method |-> "GET", path |-> "/widgets", id |-> <<>>,
     params |-> {<<"archived", "false">>} \cup
                (IF cid # NoCollection THEN {<<"collectionId", cid>>} ELSE {})]

(***************************************************************************)
(* Several resolve() calls against one service: the operations that make    *)
(* them, their clients and the backend identifier each client tracks        *)
(***************************************************************************)
\* _backend_identifier of a client that has seen no response yet
NoBackend == "None"

\* the X-Favro-Backend-Identifier header the service puts on its responses
ServiceBackend == "x"

\* the operations (tool calls) that resolve identifiers
Operations == {1, 2}

\* a get_client that hands every operation the same client
get_client_shared(operation) == 1

\* FavroContext.get_client: each operation that asks gets a client of its own
get_client(operation) == operation

\* FavroClient.__init__ of every client: no backend identifier yet
NoBackends == [c \in Operations |-> NoBackend]

\* the collections, identifiers and failures looked at when two calls are
\* compared: ids "a" and "k", names "a" and "A", emails "a" and "e", the
\* card number 42
PairStores(et) ==
    {s \in Stores(et) :
        \A i \in 1..Len(s) :
            /\ s[i].id \in {<<"a">>, <<"k">>}
            /\ s[i].name \in {<<"a">>, <<"A">>}
            /\ s[i].seq \in {0, 42}
            /\ s[i].email \in {<<>>, <<"a">>, <<"e">>}}

PairIdentifiers(et) ==
    IdentifierPool(et) \cap {<<"a">>, <<"A">>, <<"k">>, <<"4", "2">>}

PairExceptions ==
    {"none", "FavroNotFoundError", "RequestError", "TypeError", "ValueError"}

\* the trace entry of a step that sent no request
NoRequestSent == [method |-> "none", path |-> "", id |-> <<>>, params |-> {}]

(***************************************************************************)
(* Pagination: FavroClient._paginate_all of api/client.py and               *)
(* FavroClient._get_all_pages of client.py against a service that splits a  *)
(* listing into pages                                                       *)
(***************************************************************************)
\* no requestId: the key is missing from the response, or the local is None
NoRequestId == "None"

\* the requestId the service hands out for a paginated listing
ServiceRequestId == "r"

\* the entities one page can hold
PageItems == {"e1", "e2"}

Pages == {<<>>} \cup {<<x>> : x \in PageItems}
            \cup {<<x, y>> : x \in PageItems, y \in PageItems}

\* the listings the service can hold: one to MaxPages pages
Listings == UNION {[1..n -> Pages] : n \in 1..MaxPages}

\* query parameters of the first request: those of the caller
FirstPageParams == {}

\* query parameters of a later request as they go on the wire: the page
\* number in decimal
PageParams(rid, k) == {<<"requestId", rid>>, <<"page", str(k)>>}

\* the service's answer to a request for a page of the listing l
ServicePage(l, rid, params) ==
    LET k == IF HasParam(params, "page") THEN int(ParamValue(params, "page")) ELSE 0
    IN [entities |-> IF k + 1 \in 1..Len(l) THEN l[k + 1] ELSE <<>>,
        pages |-> Len(l),
        requestId |-> rid]

\* a loop test that lets the loop fetch one page more
LastPageMissed(k, pages) == k >= pages

\* "if page >= pages - 1: break" of _get_all_pages
LastPage(k, pages) == k >= pages - 1

\* "for page in range(1, total_pages)" of _paginate_all: k is still in range
InRange(k, pages) == k < pages

(***************************************************************************)
(* State                                                                   *)
(***************************************************************************)
VARIABLES
    entity_type,  \* the resolver class that was constructed
    store,        \* the service's collection of that kind, in listing order
    pc,           \* position of the resolve() call
    identifier,   \* argument of the call
    board_id,     \* board_id keyword of the call
    last_call,    \* the client call of the latest step and the exception it raised
    entity,       \* local "entity": what the fast path got back, or None
    entities,     \* local "entities" / "cards" / "users": the latest listing
    requests,     \* requests the call has sent to the service, in order
    result,       \* how the call ended
    api,          \* the client making an HTTP call: "sync", "async" or "none"
    retry_count,  \* retry_count argument of _request
    attempt,      \* loop variable of _request
    script,       \* the service's answers to the requests of the HTTP call
    sent,         \* number of requests the HTTP call has sent
    outcome,      \* how the HTTP call stands
    script_headers,  \* X-Favro-Backend-Identifier on each of these answers
    backend_id,   \* _backend_id / _backend_identifier of the client
    headers,      \* the backend header in the local "headers" of the call
    wire,         \* header sent and header received of each request of the client
    current_org_id,  \* FavroContext.current_org_id
    credentials,  \* FAVRO_EMAIL and FAVRO_API_TOKEN are both set
    ctx_call,     \* the latest call made on the context
    op,           \* the operation whose resolve() call the resolver state shows
    parked,       \* the resolve() call of the other operation, or an earlier call
    trace,        \* the fetches of the call shown: request, header sent, exception
    backend,      \* _backend_identifier of each operation's client
    listing,      \* the pages of the listing the service holds
    service_request_id,  \* requestId on the service's answers, or none
    pager,        \* the method that fetches the listing
    pg,           \* position of that method
    page,         \* local "page"
    request_id,   \* local "request_id"
    total_pages,  \* local "total_pages" of _paginate_all
    all_entities, \* local "all_entities"
    page_requests,  \* query parameters of the requests sent, in order
    text,         \* the string handed to _parse_sequential_id
    parsed,       \* what _parse_sequential_id returned
    parse_pc,     \* "ready" before the call, "done" after it
    env_org_id,   \* FAVRO_ORGANIZATION_ID of the server's environment, or none
    organization_id,  \* _organization_id of the server's global client
    so_pc,        \* position or result of the set_organization call
    so_arg,       \* its organization_id argument
    so_before,    \* the client's organization id when it was called
    orgs,         \* its local "orgs": the fetched list of organizations
    lw_pc,        \* position or result of the list_widgets call
    lw_header,    \* organizationId header of the request list_widgets sent
    validated,    \* ids set_organization has found in the fetched list
    observed,     \* ids that passed an "organization set" check and went into a header
    collections,  \* the collections the service lists, in its order
    lb_pc,        \* position of the list_boards call
    collection,   \* its argument "collection"
    collection_id,  \* its local "collection_id"
    lb_result,    \* what it returned or raised
    lb_requests   \* the requests it sent, in order

\* state of a resolve() call
resolver_vars ==
    <<entity_type, store, pc, identifier, board_id, last_call, entity, entities,
      requests, result>>

\* state of one HTTP call
request_vars ==
    <<api, retry_count, attempt, script, sent, outcome, script_headers,
      backend_id, headers, wire>>

\* state of the session context
context_vars == <<current_org_id, credentials, ctx_call>>

\* state of the calls that are compared
calls_vars == <<op, parked, trace, backend>>

\* state of a paginated fetch
pages_vars ==
    <<listing, service_request_id, pager, pg, page, request_id, total_pages,
      all_entities, page_requests>>

\* state of a call of _parse_sequential_id
parse_vars == <<text, parsed, parse_pc>>

\* state of the async server: its global client and the calls under way
server_vars ==
    <<env_org_id, organization_id, so_pc, so_arg, so_before, orgs, lw_pc,
      lw_header, validated, observed>>

\* state of a list_boards call
boards_vars ==
    <<collections, lb_pc, collection, collection_id, lb_result, lb_requests>>

vars ==
    <<resolver_vars, request_vars, context_vars, calls_vars, pages_vars,
      parse_vars, server_vars, boards_vars>>

\* no client call was made in the latest step
NoCall == [fn |-> "none", exc |-> "none"]

\* the resolver method fn called the client, which raised exc (or "none")
Call(fn, exc) == [fn |-> fn, exc |-> exc]

\* no HTTP call is looked at
NoRequest ==
    /\ api = "none"
    /\ retry_count = 0
    /\ attempt = 0
    /\ script = <<>>
    /\ sent = 0
    /\ outcome = Pending
    /\ script_headers = <<>>
    /\ backend_id = NoBackend
    /\ headers = NoBackend
    /\ wire = <<>>

\* no session context is looked at
NoContext ==
    /\ current_org_id = NoOrg
    /\ credentials = TRUE
    /\ ctx_call = NoCtxCall

\* no other call is looked at
NoParked ==
    [op |-> 0, pc |-> "none", identifier |-> <<>>, board_id |-> NoBoard,
     last_call |-> NoCall, entity |-> NoEntity, entities |-> <<>>,
     requests |-> <<>>, result |-> NoResult, trace |-> <<>>]

\* one operation, one call, nothing tracked
NoCalls ==
    /\ op = 1
    /\ parked = NoParked
    /\ trace = <<>>
    /\ backend = NoBackends

\* no paginated fetch is looked at
NoPages ==
    /\ listing = <<>>
    /\ service_request_id = NoRequestId
    /\ pager = "none"
    /\ pg = "none"
    /\ page = 0
    /\ request_id = NoRequestId
    /\ total_pages = 0
    /\ all_entities = <<>>
    /\ page_requests = <<>>

\* no call of _parse_sequential_id is looked at
NoParse ==
    /\ text = <<>>
    /\ parsed = NoSeq
    /\ parse_pc = "none"

\* no server is looked at
NoServer ==
    /\ env_org_id = NoOrg
    /\ organization_id = NoOrg
    /\ so_pc = "none"
    /\ so_arg = NoOrg
    /\ so_before = NoOrg
    /\ orgs = <<>>
    /\ lw_pc = "none"
    /\ lw_header = NoOrg
    /\ validated = {}
    /\ observed = {}

\* no list_boards call is looked at
NoBoards ==
    /\ collections = <<>>
    /\ lb_pc = "none"
    /\ collection = <<>>
    /\ collection_id = <<>>
    /\ lb_result = "none"
    /\ lb_requests = <<>>

\* a resolver of one kind, constructed and not yet called
Init ==
    /\ entity_type \in EntityTypes
    /\ store \in Stores(entity_type)
    /\ pc = "idle"
    /\ identifier = <<>>
    /\ board_id = NoBoard
    /\ last_call = NoCall
    /\ entity = NoEntity
    /\ entities = <<>>
    /\ requests = <<>>
    /\ result = NoResult
    /\ NoRequest
    /\ NoContext
    /\ NoCalls
    /\ NoPages
    /\ NoParse
    /\ NoServer
    /\ NoBoards

\* a resolver is constructed for one operation and resolves one identifier
Callable == pc = "idle"

\* a fast path that asks the service only during the resolver's first call
\* and finds nothing by id afterwards
TryIdFirstCallOnly(id, board, response) ==
    LET r == IF parked.pc = "done" /\ parked.op = op
             THEN Returned(NoEntity, <<>>)
             ELSE fetch_by_id(entity_type, id, response, store)
    IN /\ identifier' = id
       /\ board_id' = board
       /\ requests' = r.sent
       /\ last_call' = Call("_fetch_by_id", r.exc)
       /\ entity' = IF r.exc = "none" THEN r.value ELSE NoEntity
       /\ IF FastPathHit(r)
          THEN /\ result' = Return(r.value)
               /\ pc' = "done"
          ELSE /\ result' = NoResult
               /\ pc' = "name_lookup"
       /\ UNCHANGED <<entity_type, store, entities>>

\* lines 104-110 of BaseResolver.resolve and 97-103 of CardResolver.resolve
TryId(id, board, response) ==
    LET r == fetch_by_id(entity_type, id, response, store)
    IN /\ identifier' = id
       /\ board_id' = board
       /\ requests' = r.sent
       /\ last_call' = Call("_fetch_by_id", get_entity(entity_type, id, response, store).exc)
       /\ entity' = IF r.exc = "none" THEN r.value ELSE NoEntity
       /\ IF FastPathHit(r)
          THEN /\ result' = Return(r.value)
               /\ pc' = "done"
          ELSE IF r.exc # "none" /\ ~ExceptException(r.exc)
          THEN /\ result' = Raise(r.exc)
               /\ pc' = "done"
          ELSE /\ result' = NoResult
               /\ pc' = "name_lookup"
       /\ UNCHANGED <<entity_type, store, entities>>

\* a call of BaseResolver.resolve (also through UserResolver.resolve) up to
\* the end of its fast path
FastPath ==
    /\ Callable
    /\ entity_type \in GenericTypes
    /\ \E id \in IdentifierPool(entity_type), board \in ScopePool(entity_type) :
         \E response \in ByIdResponses(store, id) :
            TryId(id, board, response)

\* lines 112-125 of BaseResolver.resolve and 111-122 of CardResolver.resolve,
\* followed by the handler of UserResolver.resolve (lines 48-52)
SearchByName(response) ==
    LET r == fetch_all(entity_type, board_id, response, store)
        out == IF r.exc # "none" THEN Raise(r.exc)
               ELSE MatchOutcome(entity_type, identifier,
                                 NameMatches(r.value, identifier))
    IN /\ requests' = requests \o r.sent
       /\ last_call' = Call("_fetch_all", r.exc)
       /\ entities' = IF r.exc = "none" THEN r.value ELSE <<>>
       /\ IF entity_type = "user" /\ ExceptNotFoundError(out)
          THEN /\ result' = NoResult
               /\ pc' = "email_lookup"
          ELSE /\ result' = out
               /\ pc' = "done"
       /\ UNCHANGED <<entity_type, store, identifier, board_id, entity>>

\* BaseResolver.resolve from the name fallback on
NameLookup ==
    /\ pc = "name_lookup"
    /\ entity_type \in GenericTypes
    /\ \E response \in Responses : SearchByName(response)

\* UserResolver.resolve after the caught NotFoundError (lines 54-67)
EmailLookup ==
    /\ pc = "email_lookup"
    /\ \E response \in Responses :
         LET r == fetch_all(entity_type, NoBoard, response, store)
         IN /\ requests' = requests \o r.sent
            /\ last_call' = Call("_fetch_all", r.exc)
            /\ entities' = IF r.exc = "none" THEN r.value ELSE <<>>
            /\ result' = IF r.exc # "none" THEN Raise(r.exc)
                         ELSE EmailOutcome(entity_type, identifier,
                                           EmailMatches(r.value, identifier))
    /\ pc' = "done"
    /\ UNCHANGED <<entity_type, store, identifier, board_id, entity>>

\* a call of CardResolver.resolve with a sequential reference (lines 76-95)
CardSequentialPath ==
    /\ Callable
    /\ entity_type = "card"
    /\ \E id \in IdentifierPool(entity_type), board \in ScopePool(entity_type) :
         /\ parse_sequential_id(id) # NoSeq
         /\ \E response \in Responses :
              LET r == get_cards([widget_common_id |-> board,
                                  card_sequential_id |-> parse_sequential_id(id)],
                                 response, store)
              IN /\ requests' = r.sent
                 /\ last_call' = Call("get_cards", r.exc)
                 /\ entities' = IF r.exc = "none" THEN r.value ELSE <<>>
                 /\ result' = IF r.exc # "none" THEN Raise(r.exc)
                              ELSE SequentialOutcome(entity_type, id, r.value)
         /\ identifier' = id
         /\ board_id' = board
    /\ pc' = "done"
    /\ UNCHANGED <<entity_type, store, entity>>

\* a call of CardResolver.resolve with any other identifier, up to the end
\* of its fast path (lines 76-77, 97-103)
CardFastPath ==
    /\ Callable
    /\ entity_type = "card"
    /\ \E id \in IdentifierPool(entity_type), board \in ScopePool(entity_type) :
         /\ parse_sequential_id(id) = NoSeq
         /\ \E response \in ByIdResponses(store, id) :
              TryId(id, board, response)

\* CardResolver.resolve from the scope check on (lines 105-122)
CardNameLookup ==
    /\ pc = "name_lookup"
    /\ entity_type = "card"
    /\ IF BoardIsNone(board_id)
       THEN /\ result' = Raise("ValueError")
            /\ last_call' = NoCall
            /\ pc' = "done"
            /\ UNCHANGED <<entity_type, store, identifier, board_id, entity,
                           entities, requests>>
       ELSE \E response \in Responses : SearchByName(response)

\* the steps of a resolve() call that runs on its own
FastPathStep == FastPath /\ UNCHANGED <<request_vars, pages_vars, context_vars, calls_vars, parse_vars, server_vars, boards_vars>>

NameLookupStep == NameLookup /\ UNCHANGED <<request_vars, pages_vars, context_vars, calls_vars, parse_vars, server_vars, boards_vars>>

EmailLookupStep == EmailLookup /\ UNCHANGED <<request_vars, pages_vars, context_vars, calls_vars, parse_vars, server_vars, boards_vars>>

CardSequentialPathStep == CardSequentialPath /\ UNCHANGED <<request_vars, pages_vars, context_vars, calls_vars, parse_vars, server_vars, boards_vars>>

CardFastPathStep == CardFastPath /\ UNCHANGED <<request_vars, pages_vars, context_vars, calls_vars, parse_vars, server_vars, boards_vars>>

CardNameLookupStep == CardNameLookup /\ UNCHANGED <<request_vars, pages_vars, context_vars, calls_vars, parse_vars, server_vars, boards_vars>>

Next ==
    \/ FastPathStep
    \/ NameLookupStep
    \/ EmailLookupStep
    \/ CardSequentialPathStep
    \/ CardFastPathStep
    \/ CardNameLookupStep

Spec == Init /\ [][Next]_vars

(***************************************************************************)
(* One HTTP call: FavroClient._get of api/client.py or FavroClient._request *)
(* of client.py                                                            *)
(***************************************************************************)
\* no resolver is looked at
NoResolver ==
    /\ entity_type = "organization"
    /\ store = <<>>
    /\ pc = "idle"
    /\ identifier = <<>>
    /\ board_id = NoBoard
    /\ last_call = NoCall
    /\ entity = NoEntity
    /\ entities = <<>>
    /\ requests = <<>>
    /\ result = NoResult

\* a call of _get, or of _request with some retry_count, is about to start
RequestInit ==
    /\ NoResolver
    /\ NoContext
    /\ NoCalls
    /\ NoPages
    /\ NoParse
    /\ NoServer
    /\ NoBoards
    /\ api \in {"sync", "async"}
    /\ retry_count \in (IF api = "async" THEN 0..MaxRetryCount ELSE {0})
    /\ attempt = 0
    /\ script \in Scripts
    /\ sent = 0
    /\ outcome = Pending
    /\ script_headers = [k \in DOMAIN script |-> ServiceBackend]
    /\ backend_id = NoBackend
    /\ headers = NoBackend
    /\ wire = <<>>

\* the backend header of the answer to the next request; a request that
\* fails in transport has no answer
Received ==
    IF script[sent + 1].status = 0 THEN NoBackend ELSE script_headers[sent + 1]

\* api/client.py, FavroClient._get: _get_headers, one request, then
\* _handle_response
Get ==
    /\ api = "sync"
    /\ outcome = Pending
    /\ sent' = sent + 1
    /\ headers' = get_headers(backend_id)
    /\ wire' = Append(wire, [header |-> headers', received |-> Received])
    /\ backend_id' = track_backend(backend_id, Received)
    /\ outcome' = sync_get(script[sent + 1])
    /\ UNCHANGED <<api, retry_count, attempt, script, script_headers>>
    /\ UNCHANGED <<resolver_vars, context_vars, calls_vars, pages_vars, parse_vars, server_vars, boards_vars>>

\* client.py, FavroClient._request: before the first pass the headers are
\* built (line 140); then the loop test, and either one pass through the
\* loop body or the raise after the loop
Request ==
    /\ api = "async"
    /\ outcome = Pending
    /\ headers' = IF attempt = 0 THEN get_headers(backend_id) ELSE headers
    /\ IF attempt < retry_count
       THEN /\ sent' = sent + 1
            /\ wire' = Append(wire, [header |-> headers', received |-> Received])
            /\ backend_id' = track_backend(backend_id, Received)
            /\ outcome' = request_attempt(retry_count, attempt, script[sent + 1])
            /\ attempt' = attempt + 1
       ELSE /\ outcome' = Raises("FavroAPIError", "Max retries exceeded")
            /\ UNCHANGED <<sent, attempt, wire, backend_id>>
    /\ UNCHANGED <<api, retry_count, script, script_headers>>
    /\ UNCHANGED <<resolver_vars, context_vars, calls_vars, pages_vars, parse_vars, server_vars, boards_vars>>

RequestNext ==
    \/ Get
    \/ Request

SpecRequest == RequestInit /\ [][RequestNext]_vars

\* the event loop resumes a coroutine whose await has completed: every request
\* ends within the transport's timeout (30 s) and every back-off sleep is
\* finite (at most 60 s), so a call that can take its next step takes it
SpecRequestLive == SpecRequest /\ WF_vars(RequestNext)

(***************************************************************************)
(* The HTTP calls one client makes one after the other, and the backend     *)
(* identifier it tracks                                                     *)
(***************************************************************************)
\* a new client is about to make its first call
HeadersInit ==
    /\ NoResolver
    /\ NoContext
    /\ NoCalls
    /\ NoPages
    /\ NoParse
    /\ NoServer
    /\ NoBoards
    /\ api \in {"sync", "async"}
    /\ retry_count \in (IF api = "async" THEN 1..MaxRetryCount ELSE {0})
    /\ attempt = 0
    /\ script \in HeaderScripts
    /\ sent = 0
    /\ outcome = Pending
    /\ script_headers \in [DOMAIN script -> BackendHeaders]
    /\ backend_id = NoBackend
    /\ headers = NoBackend
    /\ wire = <<>>

\* the call has ended and the client makes its next one (the next page of
\* a listing, or another call of the tool); the service goes on with the
\* answers that are left
NextCall ==
    /\ outcome # Pending
    /\ sent < Len(script)
    /\ script' = SubSeq(script, sent + 1, Len(script))
    /\ script_headers' = SubSeq(script_headers, sent + 1, Len(script))
    /\ retry_count' \in (IF api = "async"
                         THEN {n \in 1..MaxRetryCount : n <= Len(script) - sent}
                         ELSE {0})
    /\ attempt' = 0
    /\ sent' = 0
    /\ outcome' = Pending
    /\ UNCHANGED <<api, backend_id, headers, wire>>
    /\ UNCHANGED <<resolver_vars, context_vars, calls_vars, pages_vars, parse_vars, server_vars, boards_vars>>

HeadersNext ==
    \/ Get
    \/ Request
    \/ NextCall

SpecHeaders == HeadersInit /\ [][HeadersNext]_vars

(***************************************************************************)
(* The session context: require_org (context.py) and the set_organization   *)
(* tool (tools/organizations.py), one call at a time                        *)
(***************************************************************************)
\* the locals of a resolve() call that is not running
ResolverIdle ==
    /\ pc = "idle"
    /\ identifier = <<>>
    /\ board_id = NoBoard
    /\ last_call = NoCall
    /\ entity = NoEntity
    /\ entities = <<>>
    /\ requests = <<>>
    /\ result = NoResult

\* app_lifespan: a fresh FavroContext; the store holds the organizations the
\* account can access
ContextInit ==
    /\ entity_type = "organization"
    /\ store \in Stores("organization")
    /\ ResolverIdle
    /\ NoRequest
    /\ NoCalls
    /\ NoPages
    /\ NoParse
    /\ NoServer
    /\ NoBoards
    /\ current_org_id = NoOrg
    /\ credentials \in BOOLEAN
    /\ ctx_call = NoCtxCall

\* FavroContext.require_org, the whole method
RequireOrg ==
    /\ ctx_call.status # "running"
    /\ \E response \in Responses :
         LET r == require_org(current_org_id, credentials, response, store)
         IN /\ current_org_id' = r.org
            /\ ctx_call' = r.call
    /\ UNCHANGED <<credentials, resolver_vars, request_vars, pages_vars, calls_vars, parse_vars, server_vars, boards_vars>>

\* set_organization up to the end of the resolver's fast path: get_client()
\* raises without credentials, else OrganizationResolver(client).resolve(org)
\* starts
SetOrganizationFastPath ==
    /\ ctx_call.status # "running"
    /\ IF credentials
       THEN /\ FastPath
            /\ ctx_call' = CtxRunning("set_organization", current_org_id)
       ELSE /\ Callable
            /\ ctx_call' = CtxRaise("set_organization", current_org_id,
                                    "ValueError", "credentials", <<>>)
            /\ UNCHANGED resolver_vars
    /\ UNCHANGED <<current_org_id, credentials, request_vars, pages_vars, calls_vars, parse_vars, server_vars, boards_vars>>

\* the name fallback of the resolve() call inside set_organization
SetOrganizationNameLookup ==
    /\ ctx_call.status = "running"
    /\ NameLookup
    /\ UNCHANGED <<context_vars, request_vars, pages_vars, calls_vars, parse_vars, server_vars, boards_vars>>

\* set_organization after resolve() has ended: a returned organization
\* becomes the current one (line 72); a raised exception leaves the tool
\* with the selection as it was; the resolver and its locals are dropped
SetOrganizationReturn ==
    /\ ctx_call.status = "running"
    /\ pc = "done"
    /\ IF result.status = "return"
       THEN /\ current_org_id' = result.entity.id
            /\ ctx_call' = CtxReturn("set_organization", ctx_call.before,
                                     result.entity.id, requests)
       ELSE /\ current_org_id' = current_org_id
            /\ ctx_call' = CtxRaise("set_organization", ctx_call.before,
                                    result.exc, "", requests)
    /\ pc' = "idle"
    /\ identifier' = <<>>
    /\ board_id' = NoBoard
    /\ last_call' = NoCall
    /\ entity' = NoEntity
    /\ entities' = <<>>
    /\ requests' = <<>>
    /\ result' = NoResult
    /\ UNCHANGED <<entity_type, store, credentials, request_vars, pages_vars, calls_vars, parse_vars, server_vars, boards_vars>>

ContextNext ==
    \/ RequireOrg
    \/ SetOrganizationFastPath
    \/ SetOrganizationNameLookup
    \/ SetOrganizationReturn

SpecContext == ContextInit /\ [][ContextNext]_vars

(***************************************************************************)
(* Two resolve() calls against the same service: a second call on the same  *)
(* resolver, or the call of a second operation whose steps interleave with  *)
(* the first's                                                             *)
(***************************************************************************)
CallsInit ==
    /\ entity_type \in EntityTypes
    /\ store \in PairStores(entity_type)
    /\ ResolverIdle
    /\ NoRequest
    /\ NoContext
    /\ NoCalls
    /\ NoPages
    /\ NoParse
    /\ NoServer
    /\ NoBoards

\* what the step just taken did to the client of the operation: _get_headers
\* read the backend identifier for the request, if one was sent, and
\* _handle_response stored the one of the response, if one came
Track ==
    LET c == get_client(op)
        sent_now == requests' # requests
        answered == sent_now /\ last_call'.exc # "RequestError"
    IN /\ identifier' \in PairIdentifiers(entity_type)
       /\ last_call'.exc \in PairExceptions
       /\ trace' = Append(trace,
                     [request |-> IF sent_now THEN requests'[Len(requests')]
                                              ELSE NoRequestSent,
                      header |-> IF sent_now THEN backend[c] ELSE NoBackend,
                      exc |-> last_call'.exc])
       /\ backend' = IF answered THEN [backend EXCEPT ![c] = ServiceBackend]
                                 ELSE backend
       /\ UNCHANGED <<op, parked, request_vars, pages_vars, context_vars, parse_vars, server_vars, boards_vars>>

TrackedFastPath == FastPath /\ Track

TrackedNameLookup == NameLookup /\ Track

TrackedEmailLookup == EmailLookup /\ Track

TrackedCardSequentialPath == CardSequentialPath /\ Track

TrackedCardFastPath == CardFastPath /\ Track

TrackedCardNameLookup == CardNameLookup /\ Track

\* the call shown, with its locals
Snapshot ==
    [op |-> op, pc |-> pc, identifier |-> identifier, board_id |-> board_id,
     last_call |-> last_call, entity |-> entity, entities |-> entities,
     requests |-> requests, result |-> result, trace |-> trace]

\* the call shown has ended and the same operation calls resolve() again on
\* the same resolver: a new frame, the same client
CallAgain ==
    /\ pc = "done"
    /\ parked = NoParked
    /\ parked' = Snapshot
    /\ pc' = "idle"
    /\ identifier' = <<>>
    /\ board_id' = NoBoard
    /\ last_call' = NoCall
    /\ entity' = NoEntity
    /\ entities' = <<>>
    /\ requests' = <<>>
    /\ result' = NoResult
    /\ trace' = <<>>
    /\ UNCHANGED <<entity_type, store, op, backend, request_vars, pages_vars, context_vars, parse_vars, server_vars, boards_vars>>

\* a second operation builds a resolver of its own while the first one's
\* call is under way or over
SecondOperation ==
    /\ pc # "idle"
    /\ parked = NoParked
    /\ parked' = Snapshot
    /\ op' = 2
    /\ pc' = "idle"
    /\ identifier' = <<>>
    /\ board_id' = NoBoard
    /\ last_call' = NoCall
    /\ entity' = NoEntity
    /\ entities' = <<>>
    /\ requests' = <<>>
    /\ result' = NoResult
    /\ trace' = <<>>
    /\ UNCHANGED <<entity_type, store, backend, request_vars, pages_vars, context_vars, parse_vars, server_vars, boards_vars>>

\* the scheduler lets the other operation run: its call is between two
\* fetches, the one shown has made at least one
Switch ==
    /\ pc # "idle"
    /\ parked.op \in Operations \ {op}
    /\ parked.pc \in {"name_lookup", "email_lookup"}
    /\ parked' = Snapshot
    /\ op' = parked.op
    /\ pc' = parked.pc
    /\ identifier' = parked.identifier
    /\ board_id' = parked.board_id
    /\ last_call' = parked.last_call
    /\ entity' = parked.entity
    /\ entities' = parked.entities
    /\ requests' = parked.requests
    /\ result' = parked.result
    /\ trace' = parked.trace
    /\ UNCHANGED <<entity_type, store, backend, request_vars, pages_vars, context_vars, parse_vars, server_vars, boards_vars>>

CallsNext ==
    \/ TrackedFastPath
    \/ TrackedNameLookup
    \/ TrackedEmailLookup
    \/ TrackedCardSequentialPath
    \/ TrackedCardFastPath
    \/ TrackedCardNameLookup
    \/ CallAgain
    \/ SecondOperation
    \/ Switch

SpecCalls == CallsInit /\ [][CallsNext]_vars

(***************************************************************************)
(* One paginated fetch: _paginate_all (api/client.py) or _get_all_pages     *)
(* (client.py); each request either yields the service's answer or raises   *)
(***************************************************************************)
PagesInit ==
    /\ NoResolver
    /\ NoRequest
    /\ NoContext
    /\ NoCalls
    /\ listing \in Listings
    /\ service_request_id \in {NoRequestId, ServiceRequestId}
    /\ pager \in {"_paginate_all", "_get_all_pages"}
    /\ pg = "start"
    /\ page = 0
    /\ request_id = NoRequestId
    /\ total_pages = 0
    /\ all_entities = <<>>
    /\ page_requests = <<>>
    /\ NoParse
    /\ NoServer
    /\ NoBoards

\* _paginate_all up to the loop (lines 184-197)
PaginateAllFirst ==
    /\ pager = "_paginate_all"
    /\ pg = "start"
    /\ page_requests' = Append(page_requests, FirstPageParams)
    /\ \E failed \in BOOLEAN :
         LET data == ServicePage(listing, service_request_id, FirstPageParams)
         IN IF failed
            THEN /\ pg' = "raised"
                 /\ UNCHANGED <<all_entities, request_id, total_pages, page>>
            ELSE /\ all_entities' = all_entities \o data.entities
                 /\ request_id' = data.requestId
                 /\ total_pages' = data.pages
                 /\ IF Truthy(data.requestId) /\ InRange(1, data.pages)
                    THEN pg' = "loop" /\ page' = 1
                    ELSE pg' = "done" /\ page' = page
    /\ UNCHANGED <<listing, service_request_id, pager>>
    /\ UNCHANGED <<resolver_vars, request_vars, context_vars, calls_vars, parse_vars, server_vars, boards_vars>>

\* one pass through the loop of _paginate_all (lines 198-201)
PaginateAllNext ==
    /\ pager = "_paginate_all"
    /\ pg = "loop"
    /\ page_requests' = Append(page_requests, PageParams(request_id, page))
    /\ \E failed \in BOOLEAN :
         LET data == ServicePage(listing, service_request_id,
                                 PageParams(request_id, page))
         IN IF failed
            THEN /\ pg' = "raised"
                 /\ UNCHANGED <<all_entities, page>>
            ELSE /\ all_entities' = all_entities \o data.entities
                 /\ IF InRange(page + 1, total_pages)
                    THEN pg' = "loop" /\ page' = page + 1
                    ELSE pg' = "done" /\ page' = page
    /\ UNCHANGED <<listing, service_request_id, pager, request_id, total_pages>>
    /\ UNCHANGED <<resolver_vars, request_vars, context_vars, calls_vars, parse_vars, server_vars, boards_vars>>

\* one pass through "while True" of _get_all_pages (lines 223-241)
GetAllPages ==
    /\ pager = "_get_all_pages"
    /\ pg \in {"start", "loop"}
    /\ LET params == IF Truthy(request_id) THEN PageParams(request_id, page)
                                           ELSE FirstPageParams
           data == ServicePage(listing, service_request_id, params)
       IN /\ page_requests' = Append(page_requests, params)
          /\ \E failed \in BOOLEAN :
               IF failed
               THEN /\ pg' = "raised"
                    /\ UNCHANGED <<all_entities, request_id, page>>
               ELSE /\ all_entities' = all_entities \o data.entities
                    /\ IF LastPage(page, data.pages)
                       THEN /\ pg' = "done"
                            /\ UNCHANGED <<request_id, page>>
                       ELSE /\ request_id' = data.requestId
                            /\ IF Truthy(data.requestId)
                               THEN pg' = "loop" /\ page' = page + 1
                               ELSE pg' = "done" /\ page' = page
    /\ UNCHANGED <<listing, service_request_id, pager, total_pages>>
    /\ UNCHANGED <<resolver_vars, request_vars, context_vars, calls_vars, parse_vars, server_vars, boards_vars>>

PagesNext ==
    \/ PaginateAllFirst
    \/ PaginateAllNext
    \/ GetAllPages

\* _paginate_all runs without suspension; the event loop resumes
\* _get_all_pages after each awaited request
SpecPages == PagesInit /\ [][PagesNext]_vars /\ WF_vars(PagesNext)
(***************************************************************************)
(* One call of CardResolver._parse_sequential_id                            *)
(***************************************************************************)
\* characters of the identifiers: the two prefix marks, a lower-case and an
\* upper-case letter, two digits, and white space
ParseChars == {"#", "-", "a", "Z", "0", "7", " "}

Texts == UNION {[1..n -> ParseChars] : n \in 0..MaxLen}

ParseInit ==
    /\ NoResolver
    /\ NoRequest
    /\ NoContext
    /\ NoCalls
    /\ NoPages
    /\ text \in Texts
    /\ parsed = NoSeq
    /\ parse_pc = "ready"
    /\ NoServer
    /\ NoBoards

ParseSequentialId ==
    /\ parse_pc = "ready"
    /\ parsed' = parse_sequential_id(text)
    /\ parse_pc' = "done"
    /\ UNCHANGED <<text, resolver_vars, request_vars, context_vars, calls_vars, pages_vars, server_vars, boards_vars>>

ParseNext == ParseSequentialId

SpecParse == ParseInit /\ [][ParseNext]_vars
(***************************************************************************)
(* The async server (server.py): set_organization and list_widgets as        *)
(* tasks of one event loop on the global client; a task runs from one await  *)
(* of a request to the next without interruption                             *)
(***************************************************************************)
\* get_client() has made the client with FAVRO_ORGANIZATION_ID; the store
\* holds the organizations the account can access
ServerInit ==
    /\ entity_type = "organization"
    /\ store \in AccessibleOrganizations
    /\ ResolverIdle
    /\ NoRequest
    /\ NoContext
    /\ NoCalls
    /\ NoPages
    /\ NoParse
    /\ env_org_id \in {NoOrg, <<"a">>}
    /\ organization_id = env_org_id
    /\ so_pc = "idle"
    /\ so_arg = NoOrg
    /\ so_before = NoOrg
    /\ orgs = <<>>
    /\ lw_pc = "idle"
    /\ lw_header = NoOrg
    /\ validated = {}
    /\ observed = {}
    /\ NoBoards

\* set_organization up to its await (lines 358-363): the candidate id is
\* stored in the client, then the list of organizations is requested
ServerSetOrganization ==
    /\ so_pc # "awaiting"
    /\ \E id \in IdPool :
         /\ so_arg' = id
         /\ organization_id' = id
    /\ so_before' = organization_id
    /\ so_pc' = "awaiting"
    /\ orgs' = <<>>
    /\ UNCHANGED <<env_org_id, lw_pc, lw_header, validated, observed>>
    /\ UNCHANGED <<resolver_vars, request_vars, context_vars, calls_vars, pages_vars, parse_vars, boards_vars>>

\* set_organization from the completion of the await on (lines 363-372)
ServerSetOrganizationResume ==
    /\ so_pc = "awaiting"
    /\ \E answer \in Answers :
         IF request_outcome(answer).status = "raise"
         THEN /\ organization_id' = ResetOnFailure(so_before)
              /\ so_pc' = "error"
              /\ orgs' = orgs
              /\ validated' = validated
         ELSE /\ orgs' = OrganizationsIn(answer, store)
              /\ IF HasId(orgs', so_arg)
                 THEN /\ organization_id' = organization_id
                      /\ so_pc' = "set"
                      /\ validated' = validated \cup {so_arg}
                 ELSE /\ organization_id' = ResetOnFailure(so_before)
                      /\ so_pc' = "not_found"
                      /\ validated' = validated
    /\ UNCHANGED <<env_org_id, so_arg, so_before, lw_pc, lw_header, observed>>
    /\ UNCHANGED <<resolver_vars, request_vars, context_vars, calls_vars, pages_vars, parse_vars, boards_vars>>

\* list_widgets up to its await (lines 97-102): the check of the
\* organization, then the first request of get_widgets with the headers of
\* _get_headers
ListWidgets ==
    /\ lw_pc # "awaiting"
    /\ IF OrganizationSet(organization_id)
       THEN /\ lw_pc' = "awaiting"
            /\ lw_header' = organization_id
            /\ observed' = observed \cup {organization_id}
       ELSE /\ lw_pc' = "no_organization"
            /\ lw_header' = NoOrg
            /\ observed' = observed
    /\ UNCHANGED <<env_org_id, organization_id, so_pc, so_arg, so_before, orgs,
                   validated>>
    /\ UNCHANGED <<resolver_vars, request_vars, context_vars, calls_vars, pages_vars, parse_vars, boards_vars>>

\* list_widgets from the completion of the await on (lines 102-111)
ListWidgetsResume ==
    /\ lw_pc = "awaiting"
    /\ \E answer \in Answers :
         lw_pc' = IF request_outcome(answer).status = "raise" THEN "error"
                                                               ELSE "listed"
    /\ UNCHANGED <<env_org_id, organization_id, so_pc, so_arg, so_before, orgs,
                   lw_header, validated, observed>>
    /\ UNCHANGED <<resolver_vars, request_vars, context_vars, calls_vars, pages_vars, parse_vars, boards_vars>>

ServerNext ==
    \/ ServerSetOrganization
    \/ ServerSetOrganizationResume
    \/ ListWidgets
    \/ ListWidgetsResume

SpecServer == ServerInit /\ [][ServerNext]_vars
(***************************************************************************)
(* One call of the list_boards tool (tools/boards.py) on a session context  *)
(***************************************************************************)
\* a session with or without a selected organization; the store holds the
\* organizations of the account, collections those of the organization
BoardsInit ==
    /\ entity_type = "organization"
    /\ store \in AccessibleOrganizations
    /\ ResolverIdle
    /\ NoRequest
    /\ NoCalls
    /\ NoPages
    /\ NoParse
    /\ NoServer
    /\ current_org_id \in {NoOrg, <<"a">>}
    /\ credentials = TRUE
    /\ ctx_call = NoCtxCall
    /\ collections \in CollectionListings
    /\ lb_pc = "idle"
    /\ collection = NoCollection
    /\ collection_id = NoCollection
    /\ lb_result = "none"
    /\ lb_requests = <<>>

\* list_boards up to the board query (lines 29-42): require_org, then the
\* lookup of the collection if one was named
ListBoards ==
    /\ lb_pc = "idle"
    /\ \E arg \in CollectionArguments, org_response \in Responses, response \in Responses :
         LET r == require_org(current_org_id, credentials, org_response, store)
         IN /\ collection' = arg
            /\ current_org_id' = r.org
            /\ ctx_call' = r.call
            /\ IF r.call.status = "raise"
               THEN /\ lb_pc' = "done"
                    /\ lb_result' = "raise"
                    /\ lb_requests' = r.call.sent
                    /\ collection_id' = collection_id
               ELSE IF arg = NoCollection
               THEN /\ lb_pc' = "query"
                    /\ lb_result' = "none"
                    /\ lb_requests' = r.call.sent
                    /\ collection_id' = NoCollection
               ELSE IF get(response) # "ok"
               THEN /\ lb_pc' = "done"
                    /\ lb_result' = "raise"
                    /\ lb_requests' = r.call.sent \o <<CollectionsRequest>>
                    /\ collection_id' = NoCollection
               ELSE /\ collection_id' = find_collection(collections, arg)
                    /\ lb_requests' = r.call.sent \o <<CollectionsRequest>>
                    /\ IF collection_id' = NoCollection
                       THEN lb_pc' = "done" /\ lb_result' = "error"
                       ELSE lb_pc' = "query" /\ lb_result' = "none"
    /\ UNCHANGED <<collections, credentials>>
    /\ UNCHANGED <<resolver_vars, request_vars, calls_vars, pages_vars, parse_vars, server_vars>>

\* list_boards from the board query on (lines 44-55)
ListBoardsQuery ==
    /\ lb_pc = "query"
    /\ \E response \in Responses :
         lb_result' = IF get(response) # "ok" THEN "raise" ELSE "boards"
    /\ lb_requests' = Append(lb_requests, WidgetsRequest(collection_id))
    /\ lb_pc' = "done"
    /\ UNCHANGED <<collections, collection, collection_id>>
    /\ UNCHANGED <<resolver_vars, request_vars, context_vars, calls_vars, pages_vars, parse_vars, server_vars>>

BoardsNext ==
    \/ ListBoards
    \/ ListBoardsQuery

SpecBoards == BoardsInit /\ [][BoardsNext]_vars

(***************************************************************************)
(* Properties                                                              *)
(***************************************************************************)
\* two strings are equal up to the case of their letters
SameIgnoringCase(a, b) ==
    /\ Len(a) = Len(b)
    /\ \A i \in 1..Len(a) :
         \/ a[i] = b[i]
         \/ \E k \in 1..Len(UpperChars) :
              {a[i], b[i]} = {UpperChars[k], LowerChars[k]}

\* t occurs in s as a contiguous part and is shorter than s
ProperSubstring(t, s) ==
    /\ Len(t) < Len(s)
    /\ \E k \in 0..(Len(s) - Len(t)) : SubSeq(s, k + 1, k + Len(t)) = t

\* the request asks for a collection, not for one entity by id
IsCollectionRequest(request) == request.id = <<>>

\* the name fallback got its listing: the id request and one listing were sent
\* and the listing came back
NameListingFetched ==
    /\ last_call = Call("_fetch_all", "none")
    /\ Len(requests) = 2

\* positions of the listing whose name equals the identifier case-insensitively
MatchIdx == {i \in 1..Len(entities) : SameIgnoringCase(entities[i].name, identifier)}

\* (id, name) pairs of the matching entities stand in result.matches in
\* listing order, and nothing else does
ListsExactlyTheMatches ==
    /\ Len(result.matches) = Cardinality(MatchIdx)
    /\ \A i \in MatchIdx :
         result.matches[Cardinality({j \in MatchIdx : j <= i})]
            = <<entities[i].id, entities[i].name>>

\* C1: for the organization, board, tag, column and user resolvers, when
\* _fetch_by_id returns an entity, resolve returns exactly that entity and
\* sends no collection request, whatever names the other entities carry.
C1_IdHitIsAuthoritative ==
    (entity_type \in GenericTypes /\ entity # NoEntity) =>
        /\ pc = "done"
        /\ result = Return(entity)
        /\ Len(requests) = 1
        /\ \A i \in 1..Len(requests) : ~IsCollectionRequest(requests[i])

\* C1 witness: the id hit is returned while another entity carries the
\* identifier as its name
C1_Witness ==
    /\ entity_type \in GenericTypes
    /\ pc = "done"
    /\ entity # NoEntity
    /\ result.status = "return"
    /\ \E i \in 1..Len(store) :
         store[i] # entity /\ SameIgnoringCase(store[i].name, identifier)

\* C2: in the generic resolve, when the fast path misses and two or more
\* listed entities carry the identifier as name (case-insensitively), resolve
\* raises AmbiguousMatchError whose matches are exactly those entities as
\* (id, name) pairs in listing order; none of them is returned.
C2_AmbiguousListsAllMatches ==
    (entity_type \in GenericTypes /\ NameListingFetched /\ Cardinality(MatchIdx) >= 2) =>
        /\ pc = "done"
        /\ result.status = "raise"
        /\ result.exc = "AmbiguousMatchError"
        /\ result.entity = NoEntity
        /\ ListsExactlyTheMatches

\* C2 witness: an ambiguity between two names that differ in case
C2_Witness ==
    /\ entity_type \in GenericTypes
    /\ NameListingFetched
    /\ pc = "done"
    /\ Cardinality(MatchIdx) >= 2
    /\ Len(result.matches) >= 2
    /\ result.matches[1][2] # result.matches[2][2]

\* C3: in the generic resolve, when the fast path misses and exactly one
\* listed entity carries the identifier as name under exact case-insensitive
\* comparison, resolve returns that entity; an entity returned by the name
\* lookup always carries exactly the identifier, never a longer or shorter name.
C3_UniqueExactNameReturned ==
    /\ (entity_type \in GenericTypes /\ NameListingFetched /\ Cardinality(MatchIdx) = 1) =>
          /\ pc = "done"
          /\ result = Return(entities[CHOOSE i \in MatchIdx : TRUE])
    /\ (entity_type \in GenericTypes /\ NameListingFetched /\ result.status = "return") =>
          SameIgnoringCase(result.entity.name, identifier)

\* C3 witness: the one exact match is returned although another listed entity
\* has a name that contains the identifier
C3_Witness ==
    /\ entity_type \in GenericTypes
    /\ NameListingFetched
    /\ pc = "done"
    /\ Cardinality(MatchIdx) = 1
    /\ result.status = "return"
    /\ \E i \in 1..Len(entities) : ProperSubstring(identifier, entities[i].name)

\* C4: for the organization, board and tag resolvers, when the fast path
\* yields no entity and no listed entity carries the identifier as name,
\* resolve raises NotFoundError with the resolver's entity type and the
\* identifier as given, and returns nothing.
C4_NoMatchIsNotFound ==
    (entity_type \in {"organization", "board", "tag"} /\ NameListingFetched
        /\ MatchIdx = {}) =>
        /\ pc = "done"
        /\ result.status = "raise"
        /\ result.exc = "NotFoundError"
        /\ result.entity_type = entity_type
        /\ result.identifier = identifier
        /\ result.entity = NoEntity

\* C4 witness: NotFoundError although a listed name contains the identifier
C4_Witness ==
    /\ entity_type \in {"organization", "board", "tag"}
    /\ NameListingFetched
    /\ pc = "done"
    /\ MatchIdx = {}
    /\ result.exc = "NotFoundError"
    /\ \E i \in 1..Len(entities) :
         ProperSubstring(lower(identifier), lower(entities[i].name))

\* C5: an exception raised by the client during the fast path (not found,
\* auth, rate limit, API error, transport) is never the outcome of resolve:
\* the call stands before the name lookup (the scope check for cards) in the
\* state a None from _fetch_by_id leaves: no entity, no outcome, one request.
C5_FastPathErrorSwallowed ==
    (last_call.fn = "_fetch_by_id" /\ last_call.exc # "none") =>
        /\ pc = "name_lookup"
        /\ result = NoResult
        /\ entity = NoEntity
        /\ Len(requests) = 1

\* C5 witness: a transport failure on a card's fast path
C5_Witness ==
    /\ entity_type = "card"
    /\ last_call = Call("_fetch_by_id", "RequestError")
    /\ pc = "name_lookup"

\* exceptions the client raises for a request
ClientErrors ==
    {"FavroAPIError", "FavroAuthError", "FavroNotFoundError", "FavroRateLimitError",
     "RequestError"}

\* C6: when the listing of the name fallback or of the user resolver's email
\* path fails with a client error (transport, auth, ...), resolve raises that
\* same error: not NotFoundError, not AmbiguousMatchError, and no entity.
C6_ListingErrorPropagates ==
    (last_call.fn = "_fetch_all" /\ last_call.exc \in ClientErrors) =>
        /\ pc = "done"
        /\ result = Raise(last_call.exc)
        /\ result.exc \notin {"NotFoundError", "AmbiguousMatchError"}

\* C6 witness: the name fallback of the user resolver hits a transport failure
C6_Witness ==
    /\ entity_type = "user"
    /\ Len(requests) = 2
    /\ last_call = Call("_fetch_all", "RequestError")
    /\ pc = "done"

\* cards the service holds with sequential number n inside the call's scope
CardsWithSeq(n) ==
    SelectSeq(store, LAMBDA c :
        c.seq = n /\ (board_id = NoBoard \/ c.board = board_id))

\* C7: for the card resolver, "#42", "42" and "ABC-42" all resolve to the card
\* whose sequential number is 42 in the scope, without consulting
\* _fetch_by_id, even when a card's id is the string "42".
C7_SequentialFormsResolve ==
    (/\ entity_type = "card"
     /\ pc = "done"
     /\ identifier \in {<<"#", "4", "2">>, <<"4", "2">>, <<"A", "B", "C", "-", "4", "2">>}
     /\ Len(CardsWithSeq(42)) = 1) =>
        /\ result = Return(CardsWithSeq(42)[1])
        /\ \A i \in 1..Len(requests) : IsCollectionRequest(requests[i])

\* C8: on the card resolver's sequential path the outcome follows the zero /
\* one / many rule over the cards with that sequential number in scope:
\* NotFoundError, that card, or AmbiguousMatchError listing every such card
\* in listing order as (card id, "#<seq>: <name>").
C8_SequentialZeroOneMany ==
    (/\ entity_type = "card"
     /\ pc = "done"
     /\ parse_sequential_id(identifier) # NoSeq) =>
        LET cards == CardsWithSeq(parse_sequential_id(identifier))
        IN /\ Len(cards) = 0 => result.exc = "NotFoundError"
           /\ Len(cards) = 1 => result = Return(cards[1])
           /\ Len(cards) > 1 =>
                /\ result.exc = "AmbiguousMatchError"
                /\ Len(result.matches) = Len(cards)
                /\ \A i \in 1..Len(cards) :
                     result.matches[i] =
                        <<cards[i].id,
                          <<"#">> \o str(cards[i].seq) \o <<":", " ">> \o cards[i].name>>

\* C9: card resolver: when the identifier is no sequential reference, the
\* fast path yields no card and no board_id was given, resolve raises
\* ValueError (the scope-required failure), which is not NotFoundError, and
\* sends no collection request.
C9_CardNameNeedsBoard ==
    (/\ entity_type = "card"
     /\ pc = "done"
     /\ parse_sequential_id(identifier) = NoSeq
     /\ entity = NoEntity
     /\ board_id = NoBoard) =>
        /\ result.status = "raise"
        /\ result.exc = "ValueError"
        /\ result.exc # "NotFoundError"
        /\ \A i \in 1..Len(requests) : ~IsCollectionRequest(requests[i])

\* C9 witness: the scope-required failure although a card carries the
\* identifier as its name
C9_Witness ==
    /\ entity_type = "card"
    /\ pc = "done"
    /\ parse_sequential_id(identifier) = NoSeq
    /\ entity = NoEntity
    /\ board_id = NoBoard
    /\ result.exc = "ValueError"
    /\ \E i \in 1..Len(store) : SameIgnoringCase(store[i].name, identifier)

\* C10: column resolver: when the name fallback is reached without board_id,
\* resolve raises ValueError (the scope-required failure), and every
\* collection request for columns carries a board filter.
C10_ColumnNeverFetchedUnscoped ==
    entity_type = "column" =>
        /\ (pc = "done" /\ entity = NoEntity /\ board_id = NoBoard) =>
              (result.status = "raise" /\ result.exc = "ValueError")
        /\ \A i \in 1..Len(requests) :
              IsCollectionRequest(requests[i]) =>
                 /\ HasParam(requests[i].params, "widgetCommonId")
                 /\ ParamValue(requests[i].params, "widgetCommonId") \in Boards

\* C10 witness: the scope-required failure although a column carries the
\* identifier as its name
C10_Witness ==
    /\ entity_type = "column"
    /\ pc = "done"
    /\ entity = NoEntity
    /\ board_id = NoBoard
    /\ result.exc = "ValueError"
    /\ Len(requests) = 1
    /\ \E i \in 1..Len(store) : SameIgnoringCase(store[i].name, identifier)

\* the email path got its listing: the id request, the name listing and the
\* second listing were sent and the second listing came back
EmailListingFetched ==
    /\ entity_type = "user"
    /\ pc = "done"
    /\ last_call = Call("_fetch_all", "none")
    /\ Len(requests) = 3

\* positions of the listing whose email equals the identifier case-insensitively
EmailIdx == {i \in 1..Len(entities) : SameIgnoringCase(entities[i].email, identifier)}

\* "<name> (<email>)"
NameAndEmail(u) == u.name \o <<" ", "(">> \o u.email \o <<")">>

\* C11: user resolver, email path: after the generic algorithm failed with
\* NotFoundError the users are matched by email, exactly and case-insensitively;
\* no match raises NotFoundError for the original identifier, one match is
\* returned, several raise AmbiguousMatchError listing every matching user in
\* fetch order as (user id, "<name> (<email>)").
C11_EmailPathOutcome ==
    EmailListingFetched =>
        /\ Cardinality(EmailIdx) = 0 =>
              /\ result.status = "raise"
              /\ result.exc = "NotFoundError"
              /\ result.entity_type = "user"
              /\ result.identifier = identifier
        /\ Cardinality(EmailIdx) = 1 =>
              result = Return(entities[CHOOSE i \in EmailIdx : TRUE])
        /\ Cardinality(EmailIdx) > 1 =>
              /\ result.status = "raise"
              /\ result.exc = "AmbiguousMatchError"
              /\ Len(result.matches) = Cardinality(EmailIdx)
              /\ \A i \in EmailIdx :
                   result.matches[Cardinality({j \in EmailIdx : j <= i})]
                      = <<entities[i].id, NameAndEmail(entities[i])>>

\* C11 witness: two users whose emails differ from the identifier in case
\* only are both listed
C11_Witness ==
    /\ EmailListingFetched
    /\ Cardinality(EmailIdx) = 2
    /\ Len(result.matches) = 2
    /\ \E i \in EmailIdx : entities[i].email # identifier
    /\ result.matches[1][2] # result.matches[2][2]

\* C14: resolve is read-only and stateless: whatever the outcome, every
\* request it has sent is a read (GET of one entity or of a collection), the
\* service's entities stay as they were, and the resolver's class and
\* construction-time state do not change.
C14_ResolveIsReadOnly ==
    [][/\ \A i \in 1..Len(requests') : requests'[i].method = "GET"
       /\ store' = store
       /\ entity_type' = entity_type]_vars

\* C14 witness: a call that failed after three reads against a non-empty
\* collection
C14_Witness ==
    /\ pc = "done"
    /\ Len(store) > 0
    /\ Len(requests) = 3
    /\ result.status = "raise"

\* requests of the call for one entity by id, and for a collection
ByIdRequestCount ==
    Cardinality({i \in 1..Len(requests) : ~IsCollectionRequest(requests[i])})

CollectionRequestCount ==
    Cardinality({i \in 1..Len(requests) : IsCollectionRequest(requests[i])})

\* the call was a sequential lookup of the card resolver and has ended
SequentialLookupDone ==
    /\ entity_type = "card"
    /\ pc = "done"
    /\ parse_sequential_id(identifier) # NoSeq

\* C15: one resolve call sends at most three fetches, one after another: at
\* most one by id and at most one listing for organization, board, tag, column
\* and card, one more listing for the user email path; a card sequential
\* lookup sends exactly one query; a call that has ended in NotFoundError,
\* AmbiguousMatchError or the scope-required ValueError has sent nothing after
\* the fetch that decided it.
C15_AtMostThreeFetches ==
    /\ Len(requests) <= 3
    /\ ByIdRequestCount <= 1
    /\ CollectionRequestCount <= (IF entity_type = "user" THEN 2 ELSE 1)
    /\ SequentialLookupDone =>
          /\ Len(requests) = 1
          /\ IsCollectionRequest(requests[1])
    /\ (pc = "done" /\ result.exc \in {"NotFoundError", "AmbiguousMatchError"}) =>
          /\ last_call.exc = "none"
          /\ IsCollectionRequest(requests[Len(requests)])
    /\ (pc = "done" /\ result.exc = "ValueError") => CollectionRequestCount = 0

\* C17: on the card sequential path the one query carries the parsed
\* sequential number, carries the board filter exactly when the caller gave a
\* board, and the cards the resolver decides among are exactly the cards with
\* that number in that scope.
C17_SequentialQueryIsFiltered ==
    SequentialLookupDone =>
        /\ Len(requests) = 1
        /\ IsCollectionRequest(requests[1])
        /\ HasParam(requests[1].params, "cardSequentialId")
        /\ ParamValue(requests[1].params, "cardSequentialId")
              = str(parse_sequential_id(identifier))
        /\ HasParam(requests[1].params, "widgetCommonId") <=> board_id # NoBoard
        /\ board_id # NoBoard =>
              ParamValue(requests[1].params, "widgetCommonId") = board_id
        /\ last_call.exc = "none" =>
              entities = CardsWithSeq(parse_sequential_id(identifier))

\* the answer that carries the data asked for
Success == [status |-> 200, body |-> "data"]

\* C16: the client the resolvers fetch through retries on rate limit: when a
\* request of FavroClient._get (behind every fetch by id and every listing)
\* is answered 429 and the next attempt would be answered with the data, the
\* request is sent again and the caller gets the data, not a rate-limit error.
C16_RateLimitIsRetried ==
    (/\ api = "sync"
     /\ outcome # Pending
     /\ script[1].status = 429
     /\ script[2] = Success) =>
        /\ outcome = Returns
        /\ sent = 2

\* C20: retry_count of the asynchronous _request counts retries: when every
\* attempt is answered 429, the request is sent once and then retry_count
\* more times (three more by default) before RateLimitError is raised.
C20_RetryCountCountsRetries ==
    (/\ api = "async"
     /\ retry_count >= 1
     /\ outcome # Pending
     /\ \A i \in 1..(retry_count + 1) : script[i].status = 429) =>
        /\ outcome.exc = "RateLimitError"
        /\ sent = retry_count + 1
        /\ retry_count = DefaultRetryCount => sent = 4

\* the latest call on the context was require_org
RequireOrgDone == ctx_call.fn = "require_org"

\* require_org asked the service for the organizations and got them
OrganizationsFetched ==
    /\ Len(ctx_call.sent) = 1
    /\ ctx_call.sent[1] = [method |-> "GET", path |-> "/organizations",
                           id |-> <<>>, params |-> {}]
    /\ ~(ctx_call.status = "raise" /\ ctx_call.exc # "ValueError")

\* C19: require_org returns an already selected organization without any
\* request and leaves the selection alone; with none selected it lists the
\* accessible organizations: exactly one is made current and returned, none
\* or several raise ValueError and current_org_id stays unset.
C19_RequireOrg ==
    RequireOrgDone =>
        /\ ctx_call.before # NoOrg =>
              /\ ctx_call.status = "return"
              /\ ctx_call.value = ctx_call.before
              /\ ctx_call.sent = <<>>
              /\ current_org_id = ctx_call.before
        /\ (ctx_call.before = NoOrg /\ credentials) => Len(ctx_call.sent) = 1
        /\ (ctx_call.before = NoOrg /\ OrganizationsFetched) =>
              /\ Len(store) = 1 =>
                    /\ ctx_call.status = "return"
                    /\ ctx_call.value = store[1].id
                    /\ current_org_id = store[1].id
              /\ Len(store) # 1 =>
                    /\ ctx_call.status = "raise"
                    /\ ctx_call.exc = "ValueError"
                    /\ current_org_id = NoOrg

\* C19 witness: with two organizations accessible, one of them selected
\* through set_organization, require_org returns the selected one
C19_Witness ==
    /\ RequireOrgDone
    /\ Len(store) = 2
    /\ ctx_call.before # NoOrg
    /\ ctx_call.status = "return"
    /\ current_org_id = store[2].id

\* both calls have ended
BothDone == pc = "done" /\ parked.pc = "done"

\* both calls were given the same identifier and the same board
SameArguments == identifier = parked.identifier /\ board_id = parked.board_id

\* the fetches of the two calls, the earlier call's first
Fetches == parked.trace \o trace

\* the service answered equal requests equally throughout the two calls
SameAnswers ==
    \A i, j \in 1..Len(Fetches) :
        (Fetches[i].request # NoRequestSent /\ Fetches[i].request = Fetches[j].request)
            => Fetches[i].exc = Fetches[j].exc

\* the same entity, or the same kind of failure with the same matches
SameOutcome(r1, r2) ==
    /\ r1.status = r2.status
    /\ r1.entity = r2.entity
    /\ r1.exc = r2.exc
    /\ r1.matches = r2.matches

OwnHeaders(t) ==
    \A i \in 1..Len(t) :
        t[i].request # NoRequestSent =>
            t[i].header =
                IF \E j \in 1..(i - 1) :
                      t[j].request # NoRequestSent /\ t[j].exc # "RequestError"
                THEN ServiceBackend
                ELSE NoBackend

\* C18: concurrent resolutions do not interfere: however the fetch steps of
\* the calls of two operations interleave, no request of one call carries
\* client state written by the other, and two calls with the same arguments
\* that were answered alike end alike, as either would alone.
C18_NoInterference ==
    parked.op # op =>
        /\ OwnHeaders(trace)
        /\ OwnHeaders(parked.trace)
        /\ (BothDone /\ SameArguments /\ SameAnswers) => result = parked.result

\* C18 witness: the first operation's call made a fetch, the second
\* operation's call ran, and the first made its second fetch afterwards;
\* both returned the same entity
C18_Witness ==
    /\ op = 1
    /\ parked.op = 2
    /\ BothDone
    /\ SameArguments
    /\ SameAnswers
    /\ Len(trace) >= 2
    /\ Len(parked.trace) >= 2
    /\ result.status = "return"


\* the async call has made its requests one after the other
AsyncCall == api = "async" /\ retry_count >= 1

\* the answer to the k-th request asks for another attempt
AsksForRetry(k) == script[k].status \in {429, 0}

\* how _request must end on an answer that is neither 429 nor a transport error
EndsOn(answer) ==
    IF answer.status >= 400 \/ (answer.status = 200 /\ answer.body = "message")
    THEN outcome.status = "raise" /\ outcome.exc = "FavroAPIError"
    ELSE outcome = Returns

\* C21: _request with retry_count >= 1 always terminates. Attempt k+1 is made
\* only if attempt k was answered 429 or failed in transport and k is below
\* retry_count; any other answer ends the call on that attempt (status >= 400
\* or a 200 body holding only "message" raises FavroAPIError, 204 and data
\* return); when the attempts are used up the call raises RateLimitError
\* after a 429 and FavroAPIError after a transport error; the raise of
\* "Max retries exceeded" after the loop is never reached.
C21_RequestTerminates ==
    /\ [](AsyncCall =>
            /\ sent = attempt /\ sent <= retry_count
            /\ \A k \in 1..(sent - 1) : AsksForRetry(k) /\ k < retry_count
            /\ (sent >= 1 /\ ~AsksForRetry(sent)) => EndsOn(script[sent])
            /\ (sent >= 1 /\ AsksForRetry(sent) /\ sent < retry_count)
                    => outcome = Pending
            /\ (sent = retry_count /\ script[sent].status = 429)
                    => outcome = Raises("RateLimitError", "Rate limit exceeded")
            /\ (sent = retry_count /\ script[sent].status = 0)
                    => outcome = Raises("FavroAPIError", "Request failed")
            /\ outcome.message # "Max retries exceeded")
    /\ (AsyncCall ~> outcome # Pending)

\* every attempt of a call with three attempts was rate limited
C21_Witness ==
    /\ api = "async"
    /\ retry_count = 3
    /\ sent = 3
    /\ \A k \in 1..3 : script[k].status = IF k = 2 THEN 0 ELSE 429
    /\ outcome = Raises("RateLimitError", "Rate limit exceeded")

\* the pages of a listing one after the other
RECURSIVE Concatenation(_)
Concatenation(l) == IF l = <<>> THEN <<>> ELSE Head(l) \o Concatenation(Tail(l))

\* the k-th request of the fetch asks for page k - 1 the way the service
\* expects it
AsksForPage(k) ==
    IF k = 1
    THEN ~HasParam(page_requests[k], "page")
    ELSE /\ HasParam(page_requests[k], "page")
         /\ int(ParamValue(page_requests[k], "page")) = k - 1
         /\ HasParam(page_requests[k], "requestId")
         /\ ParamValue(page_requests[k], "requestId") = ServiceRequestId

\* C22: against a service that reports the page count P >= 1 and a requestId
\* on every answer, _paginate_all and _get_all_pages send exactly P requests,
\* the first without a page parameter and then page = 1 .. P-1 with that
\* requestId, terminate, and return the pages' entities concatenated in page
\* order; when the first answer has no requestId only the first page's
\* entities are returned.
C22_Pagination ==
    /\ [](pager # "none" =>
            /\ Len(page_requests) <= Len(listing)
            /\ \A k \in 1..Len(page_requests) : AsksForPage(k)
            /\ (pg = "done" /\ service_request_id = ServiceRequestId) =>
                    /\ Len(page_requests) = Len(listing)
                    /\ all_entities = Concatenation(listing)
            /\ (pg = "done" /\ service_request_id = NoRequestId) =>
                    /\ Len(page_requests) = 1
                    /\ all_entities = listing[1])
    /\ (pager # "none" => <>(pg \in {"done", "raised"}))

\* _get_all_pages has fetched three pages that differ
C22_Witness ==
    /\ pager = "_get_all_pages"
    /\ pg = "done"
    /\ listing = <<<<"e1">>, <<>>, <<"e2", "e1">>>>
    /\ Len(page_requests) = 3
    /\ all_entities = <<"e1", "e2", "e1">>

\* the requests before the k-th whose answers carried a backend identifier
AnsweredBefore(k) == {j \in 1..(k - 1) : wire[j].received # NoBackend}

\* the latest of them
LatestBefore(k) == CHOOSE j \in AnsweredBefore(k) : \A i \in AnsweredBefore(k) : i <= j

\* C23: once a client has received an answer carrying
\* X-Favro-Backend-Identifier, every request it sends afterwards, retries and
\* later calls included, carries the most recently received value.
C23_BackendIdentifierTracked ==
    \A k \in 1..Len(wire) :
        AnsweredBefore(k) # {} => wire[k].header = wire[LatestBefore(k)].received

\* the ASCII letters
AsciiLetters ==
    {UpperChars[i] : i \in 1..Len(UpperChars)} \cup {LowerChars[i] : i \in 1..Len(LowerChars)}

\* s without the white space around it
Core(s) ==
    LET inked == {i \in 1..Len(s) : s[i] # " "}
    IN IF inked = {} THEN <<>>
       ELSE SubSeq(s, CHOOSE i \in inked : \A j \in inked : i <= j,
                      CHOOSE i \in inked : \A j \in inked : j <= i)

\* t is k characters of prefix followed by one or more digits, the prefix
\* being empty, a single "#", or one or more letters and a "-"
SequentialFormAt(t, k) ==
    /\ k < Len(t)
    /\ \A i \in (k + 1)..Len(t) : IsDigit(t[i])
    /\ \/ k = 0
       \/ k = 1 /\ t[1] = "#"
       \/ k >= 2 /\ t[k] = "-" /\ \A i \in 1..(k - 1) : t[i] \in AsciiLetters

RECURSIVE Pow10(_)
Pow10(n) == IF n = 0 THEN 1 ELSE 10 * Pow10(n - 1)

\* decimal value of the digits of t from position k + 1 on
RECURSIVE DecimalFrom(_, _)
DecimalFrom(t, k) ==
    IF k >= Len(t) THEN 0
    ELSE DigitValue(t[k + 1]) * Pow10(Len(t) - k - 1) + DecimalFrom(t, k + 1)

\* C24: _parse_sequential_id returns an integer exactly for the identifiers
\* that, once the white space around them is trimmed, are one or more digits
\* optionally preceded by a single "#" or by one or more ASCII letters and a
\* "-"; the integer is the decimal value of the digits; for every other
\* string it returns None.
C24_SequentialLanguage ==
    parse_pc = "done" =>
        IF \E k \in 0..Len(Core(text)) : SequentialFormAt(Core(text), k)
        THEN \E k \in 0..Len(Core(text)) :
                /\ SequentialFormAt(Core(text), k)
                /\ parsed = DecimalFrom(Core(text), k)
        ELSE parsed = NoSeq

\* a letter prefix and digits with a leading zero
C24_Witness ==
    /\ parse_pc = "done"
    /\ text = <<"a", "-", "0", "7">>
    /\ parsed = 7

\* C25: card resolver: an identifier that parses as a sequential reference is
\* decided by the sequential path alone: the call makes its one get_cards
\* query and neither _fetch_by_id nor the name search, and when that query
\* yields no card (the service holds none with that number in the scope and
\* did not fail) the call raises NotFoundError, whatever card ids and names
\* the board holds.
C25_SequentialPathDecidesAlone ==
    (/\ entity_type = "card"
     /\ pc = "done"
     /\ parse_sequential_id(identifier) # NoSeq) =>
        /\ last_call.fn = "get_cards"
        /\ \A i \in 1..Len(requests) : IsCollectionRequest(requests[i])
        /\ (/\ Len(CardsWithSeq(parse_sequential_id(identifier))) = 0
            /\ last_call.exc \notin ClientErrors) =>
                result = NotFoundError("card", identifier)

\* users the service holds whose name equals the identifier of the call
\* case-insensitively, and those whose email does
NameHits == {i \in 1..Len(store) : SameIgnoringCase(store[i].name, identifier)}

EmailHits == {i \in 1..Len(store) : SameIgnoringCase(store[i].email, identifier)}

\* C26: user resolver: the email path is entered only from the name step of
\* the generic algorithm, and only when that step ends in NotFoundError (the
\* listing came and no name matches); a second listing is requested only on
\* the email path. When two or more users match by name the call ends there
\* with AmbiguousMatchError listing (id, name) in fetch order, and when the
\* name listing fails the call ends there with that error, whatever the
\* users' emails are.
C26_EmailOnlyAfterNotFound ==
    [][entity_type = "user" =>
        /\ pc' = "email_lookup" =>
              /\ pc = "name_lookup"
              /\ last_call'.exc = "none"
              /\ NameHits = {}
        /\ CollectionRequestCount' = 2 => pc = "email_lookup"
        /\ (pc = "name_lookup" /\ last_call'.exc = "none" /\ Cardinality(NameHits) >= 2) =>
              /\ pc' = "done"
              /\ result'.status = "raise"
              /\ result'.exc = "AmbiguousMatchError"
              /\ result'.identifier = identifier
              /\ Len(result'.matches) = Cardinality(NameHits)
              /\ \A i \in NameHits :
                    result'.matches[Cardinality({j \in NameHits : j <= i})]
                        = <<store[i].id, store[i].name>>
        /\ (pc = "name_lookup" /\ last_call'.exc # "none") =>
              /\ pc' = "done"
              /\ result'.status = "raise"
              /\ result'.exc = last_call'.exc]_vars

\* two users match by name, exactly one user has the identifier as email, and
\* the call has ended in the name step with both users listed
C26_Witness ==
    /\ entity_type = "user"
    /\ pc = "done"
    /\ Cardinality(NameHits) = 2
    /\ Cardinality(EmailHits) = 1
    /\ CollectionRequestCount = 1
    /\ result.exc = "AmbiguousMatchError"
    /\ Len(result.matches) = 2

\* a column or card resolver's call has returned an entity
ScopedReturn ==
    /\ entity_type \in ScopedTypes
    /\ pc = "done"
    /\ result.status = "return"

\* C27: column and card resolvers: an entity that _fetch_by_id returned is
\* what resolve returns, whatever board it belongs to and whatever board_id
\* was supplied; an entity returned from the name search or from the
\* sequential query lies in the supplied board.
C27_FastPathIgnoresScope ==
    /\ (entity_type \in ScopedTypes /\ pc = "done" /\ entity # NoEntity) =>
            /\ result = Return(entity)
            /\ entity.id = identifier
            /\ requests = <<ByIdRequest(entity_type, identifier)>>
    /\ (ScopedReturn /\ last_call.fn \in {"_fetch_all", "get_cards"} /\ board_id # NoBoard) =>
            result.entity.board = board_id

\* the card with id "a" lies in board b2 and is returned to a call scoped to b1
C27_Witness ==
    /\ ScopedReturn
    /\ entity_type = "card"
    /\ identifier = <<"a">>
    /\ board_id = "b1"
    /\ last_call.fn = "_fetch_by_id"
    /\ result.entity.id = <<"a">>
    /\ result.entity.board = "b2"

\* the set_organization call has ended
SetOrganizationDone == so_pc \in {"set", "not_found", "error"}

\* C28: async server, set_organization: after the call the client's
\* organization id is the requested id if and only if the list of
\* organizations was fetched and holds that id; when the id is not in the
\* list or the fetch raised an API error the organization id is None
\* afterwards, whatever it was before the call.
C28_SetOrganizationOutcome ==
    SetOrganizationDone =>
        /\ organization_id = so_arg <=> (so_pc # "error" /\ HasId(orgs, so_arg))
        /\ so_pc = "set" <=> organization_id = so_arg
        /\ so_pc \in {"not_found", "error"} => organization_id = NoOrg

\* an organization was selected, and a call for an id the account cannot
\* access has left none selected
C28_Witness ==
    /\ so_pc = "not_found"
    /\ so_before # NoOrg
    /\ so_before \in validated
    /\ so_arg # so_before
    /\ orgs = store
    /\ ~HasId(orgs, so_arg)
    /\ organization_id = NoOrg

\* C29: async server, one global client: however set_organization and
\* list_widgets interleave, every organization id that passes the
\* "organization set" check and goes into a request header has been found
\* accessible by set_organization (or is the one the server was configured
\* with); a call that runs while set_organization awaits the list of
\* organizations does not see the candidate id.
C29_OnlyValidatedObserved ==
    /\ observed \subseteq validated \cup {env_org_id}
    /\ (lw_pc = "awaiting" /\ so_pc = "awaiting") =>
            lw_header \in validated \cup {env_org_id}

\* the collections of the listing whose id is the argument, and those whose
\* name is the argument up to the case of letters
IdMatches == {i \in 1..Len(collections) : collections[i].id = collection}

CollectionNameMatches ==
    {i \in 1..Len(collections) : SameIgnoringCase(collections[i].name, collection)}

\* list_boards was given a collection and got the listing of collections
CollectionLookedUp ==
    /\ lb_pc \in {"query", "done"}
    /\ collection # NoCollection
    /\ \E k \in 1..Len(lb_requests) : lb_requests[k].path = "/collections"
    /\ ~(lb_result = "raise" /\ lb_requests[Len(lb_requests)].path = "/collections")

\* C30: list_boards looks the collection up by id first, then by name: when a
\* collection's id equals the argument that collection is selected, even if a
\* collection earlier in the listing has the argument as its name
\* case-insensitively; a name match is taken only when no id matches; when
\* nothing matches an error result is returned and no board query is made.
C30_CollectionIdFirst ==
    CollectionLookedUp =>
        /\ IdMatches # {} => collection_id = collection
        /\ (IdMatches = {} /\ CollectionNameMatches # {}) =>
                \E i \in CollectionNameMatches : collection_id = collections[i].id
        /\ (IdMatches = {} /\ CollectionNameMatches = {}) =>
                /\ lb_pc = "done"
                /\ lb_result = "error"
                /\ \A k \in 1..Len(lb_requests) : lb_requests[k].path # "/widgets"
====
